---- MODULE Spec2Model ----
(***************************************************************************)
(* ByteBeast behavioural state engine (src/state/mood_engine.py) and the   *)
(* Beast record it mutates (src/core/models.py).                           *)
(*                                                                         *)
(* Numbers are integers in fixed units, so that every product the code     *)
(* forms is exact:                                                         *)
(*   needs           1 unit = 0.01    (100.0  = 10000)                     *)
(*   traits          1 unit = 0.005   (1.0    = 200, learning_rate = 2)    *)
(*   evolution_prog  1 unit = 0.001   (1.0    = 1000)                      *)
(*   exposure score  1 unit = 0.1     (1.0    = 10, 0.5 = 5)               *)
(*   motion_rms_g    1 unit = 0.01 g                                       *)
(*   vbat            1 unit = 0.01 V                                       *)
(*   pressure_trend  1 unit = 0.1 hPa/h                                    *)
(*   time            1 unit = 1 hour                                       *)
(*   temp_c, lux, rh, energy: the source's units                           *)
(***************************************************************************)
EXTENDS Integers, Sequences, FiniteSets, TLC

VARIABLES
    config,   \* the Config singleton read by the engine (never written)
    beast,    \* the Beast the engine operations mutate
    pre,      \* the Beast as it was when the last operation was called
    call,     \* the last operation and its arguments: op, env, actions, now
    ret,      \* the value last returned to the caller: the mood of
              \* infer_mood, the task list of generate_tasks ("none" before)
    steps,    \* number of operations performed so far
    service   \* the StateService process: loop position, running flag,
              \* the state_snapshot rows it wrote, the stages its last
              \* loop iteration completed

vars == <<config, beast, pre, call, ret, steps, service>>

\* Depth of the explored call sequences.
MaxSteps == 2

Max(a, b) == IF a >= b THEN a ELSE b
Min(a, b) == IF a <= b THEN a ELSE b
Abs(a) == IF a < 0 THEN 0 - a ELSE a

\* max(lo, min(hi, v)), the clamp the code writes out at each use.
Clamp(lo, hi, v) == Max(lo, Min(hi, v))

\* Insertion order of the needs dict of every Beast the repository builds;
\* json.dumps and json.loads keep it across save and load.
NeedOrder == <<"hunger", "rest", "social", "hygiene">>

NeedNames == {"hunger", "rest", "social", "hygiene"}
TraitNames == {"playful", "needy", "rebellious", "social", "explorer"}
Moods == {"happy", "calm", "sleepy", "anxious", "sick", "playful", "bored",
          "curious", "hot", "cold"}

\* Insertion order of the exposure_scores dict.
PathOrder == <<"sun", "shadow", "ember", "frost", "social", "lone">>
KnownPaths == {PathOrder[i] : i \in 1..Len(PathOrder)}

NeedMax == 10000
TraitMax == 200
HysteresisMargin == 2
ScoreFloor == 1

(***************************************************************************)
(* Configuration (src/core/config.py).  The engine reads the sections      *)
(* thresholds, power, needs and evolution of the Config singleton.  The    *)
(* values come from a YAML file outside the engine; two profiles are       *)
(* explored.  DefaultConfig agrees with what the tests state about the     *)
(* shipped defaults (temp_hot = 30, temp_cold = 10, lux 1000 neither dark  *)
(* nor bright, lux 10000 bright, motion 0.1 g not active, 0.3 g active,    *)
(* vbat 3.2 V low, 4.0 V healthy).  CustomConfig is an override file that  *)
(* omits the keys the engine reads with a default.                         *)
(***************************************************************************)
DefaultConfig ==
    [thresholds |-> [temp_hot |-> 30, temp_cold |-> 10, lux_dark |-> 50,
                     lux_bright |-> 2000, motion_active_g |-> 20,
                     pressure_stable |-> 20],
     power      |-> [low_voltage |-> 340],
     needs      |-> [hunger_base |-> 200, rest_base |-> 150,
                     social_base |-> 100, hygiene_base |-> 50,
                     drift_rate |-> 10],
     evolution  |-> [progression_rate |-> 1, stage_goal |-> 1000]]

CustomConfig ==
    [thresholds |-> [temp_hot |-> 35, temp_cold |-> 5, lux_dark |-> 200,
                     lux_bright |-> 5000, motion_active_g |-> 40],
     power      |-> [low_voltage |-> 330],
     needs      |-> [hunger_base |-> 100, rest_base |-> 100,
                     social_base |-> 50, hygiene_base |-> 50,
                     drift_rate |-> 20],
     evolution  |-> [progression_rate |-> 5]]

Configs == {DefaultConfig, CustomConfig}

\* dict.get(key, default)
DictGet(d, key, default) == IF key \in DOMAIN d THEN d[key] ELSE default

\* MoodEngine.__init__: self.thresholds = self.config.thresholds
thresholds == config.thresholds

(***************************************************************************)
(* EnvFeatures.  Only the fields the engine reads are kept; cct_k,         *)
(* pressure_hpa, heading_deg, roll, pitch, yaw, ibat, pwr_w, charging and  *)
(* timestamp are read by no engine operation.                              *)
(***************************************************************************)
EnvFeatures(temp_c, lux, rh, pressure_trend, motion_rms_g, shake_events, vbat, ssid_fingerprint) ==
    [temp_c |-> temp_c, lux |-> lux, rh |-> rh,
     pressure_trend |-> pressure_trend, motion_rms_g |-> motion_rms_g,
     shake_events |-> shake_events, vbat |-> vbat,
     ssid_fingerprint |-> ssid_fingerprint]

(***************************************************************************)
(* Beast.__post_init__: the clamps applied when a Beast is constructed.    *)
(***************************************************************************)
PostInit(b) ==
    [b EXCEPT
        !.needs = [n \in DOMAIN b.needs |-> Clamp(0, NeedMax, b.needs[n])],
        !.traits = [t \in DOMAIN b.traits |-> Clamp(0, TraitMax, b.traits[t])],
        !.evolution_stage = Clamp(1, 4, b.evolution_stage),
        !.evolution_prog = Clamp(0, 1000, b.evolution_prog),
        !.energy = Clamp(0, 100, b.energy)]

\* create_default_beast(), constructed at time t.
create_default_beast(t) ==
    PostInit(
    [mood |-> "calm",
     needs |-> [hunger |-> 7500, rest |-> 6000, social |-> 5000,
                hygiene |-> 8000],
     traits |-> [playful |-> 100, needy |-> 60, rebellious |-> 40,
                 social |-> 80, explorer |-> 120],
     evolution_path |-> "sun",
     evolution_stage |-> 1,
     evolution_prog |-> 0,
     energy |-> 100,
     last_updated |-> t])

(***************************************************************************)
(* Mood inference                                                          *)
(***************************************************************************)
is_environmental_extreme(e) ==
    \/ Abs(e.pressure_trend) > DictGet(thresholds, "pressure_stable", 20) * 2
    \/ e.rh > 90
    \/ e.rh < 10

\* Sleepiness judged by the rest need instead of the energy.
is_sustained_condition_by_rest(e, b, condition) ==
    IF condition = "sleepy" THEN b.needs.rest < 4000
    ELSE IF condition = "bored" THEN DictGet(b.needs, "social", 5000) < 4000
    ELSE FALSE

is_sustained_condition(e, b, condition) ==
    IF condition = "sleepy" THEN b.energy < 40
    ELSE IF condition = "bored" THEN DictGet(b.needs, "social", 5000) < 4000
    ELSE FALSE

is_comfortable_temperature(temp_c) ==
    /\ thresholds.temp_cold + 5 <= temp_c
    /\ temp_c <= thresholds.temp_hot - 5

\* A beast that remembers the fingerprint of the test location.
last_fingerprint_remembered(b) == "test"

\* getattr(beast, '_last_fingerprint', ''): no code assigns the attribute.
last_fingerprint(b) == ""

\* hasattr(beast, '_last_lux'): no code assigns the attribute.
has_last_lux(b) == FALSE

\* beast._last_lux, read only when has_last_lux holds.
last_lux(b) == 0

\* abs(lux - last) / max(last, 1) > 0.5, cross-multiplied.
detect_novelty(e, b) ==
    IF e.ssid_fingerprint # last_fingerprint(b) THEN TRUE
    ELSE IF e.shake_events > 2 THEN TRUE
    ELSE IF has_last_lux(b)
            /\ 2 * Abs(e.lux - last_lux(b)) > Max(last_lux(b), 1) THEN TRUE
    ELSE FALSE

is_environment_unstable(e) ==
    \/ Abs(e.pressure_trend) > DictGet(thresholds, "pressure_stable", 20)
    \/ e.shake_events > 3

HotRuleStrict(e, b) == e.temp_c > thresholds.temp_hot
ColdRuleStrict(e, b) == e.temp_c < thresholds.temp_cold
SickRuleNoEnergy(e, b) ==
    \/ e.vbat < config.power.low_voltage
    \/ is_environmental_extreme(e)

\* The guards of the ten rules, in the order of the source.
HotRule(e, b) == e.temp_c >= thresholds.temp_hot
ColdRule(e, b) == e.temp_c <= thresholds.temp_cold
SickRule(e, b) ==
    \/ e.vbat < config.power.low_voltage
    \/ b.energy < 20
    \/ is_environmental_extreme(e)
SleepyRule(e, b) ==
    /\ e.lux < thresholds.lux_dark
    /\ 4 * e.motion_rms_g < thresholds.motion_active_g
    /\ is_sustained_condition(e, b, "sleepy")
PlayfulRule(e, b) ==
    \/ e.shake_events > 0
    \/ e.motion_rms_g > thresholds.motion_active_g
HappyRule(e, b) ==
    /\ e.lux > thresholds.lux_bright
    /\ is_comfortable_temperature(e.temp_c)
    /\ b.energy > 60
CuriousRule(e, b) == detect_novelty(e, b)
BoredRule(e, b) ==
    /\ 2 * e.motion_rms_g < thresholds.motion_active_g
    /\ is_sustained_condition(e, b, "bored")
AnxiousRule(e, b) ==
    \/ is_environment_unstable(e)
    \/ \E n \in DOMAIN b.needs : b.needs[n] < 3000

infer_mood_happy_first(e, b) ==
    IF HotRule(e, b) THEN "hot"
    ELSE IF ColdRule(e, b) THEN "cold"
    ELSE IF SickRule(e, b) THEN "sick"
    ELSE IF SleepyRule(e, b) THEN "sleepy"
    ELSE IF HappyRule(e, b) THEN "happy"
    ELSE IF PlayfulRule(e, b) THEN "playful"
    ELSE IF CuriousRule(e, b) THEN "curious"
    ELSE IF BoredRule(e, b) THEN "bored"
    ELSE IF AnxiousRule(e, b) THEN "anxious"
    ELSE "calm"

infer_mood(e, b) ==
    IF HotRule(e, b) THEN "hot"
    ELSE IF ColdRule(e, b) THEN "cold"
    ELSE IF SickRule(e, b) THEN "sick"
    ELSE IF SleepyRule(e, b) THEN "sleepy"
    ELSE IF PlayfulRule(e, b) THEN "playful"
    ELSE IF HappyRule(e, b) THEN "happy"
    ELSE IF CuriousRule(e, b) THEN "curious"
    ELSE IF BoredRule(e, b) THEN "bored"
    ELSE IF AnxiousRule(e, b) THEN "anxious"
    ELSE "calm"

(***************************************************************************)
(* Needs                                                                   *)
(***************************************************************************)
\* A drift that stops for hunger while the beast is not active.
calculate_drift_rate_idle(need, base_rate, e, b) ==
    IF need = "hunger" /\ e.motion_rms_g <= thresholds.motion_active_g
    THEN 0 ELSE base_rate

\* The multipliers 1.5, 1.2, 1.3 and 0.8 as exact integer ratios.
calculate_drift_rate(need, base_rate, e, b) ==
    IF need = "hunger" THEN
        IF e.motion_rms_g > thresholds.motion_active_g
        THEN (base_rate * 15) \div 10 ELSE base_rate
    ELSE IF need = "rest" THEN
        LET r1 == IF e.lux > thresholds.lux_bright
                  THEN (base_rate * 12) \div 10 ELSE base_rate
        IN  IF e.motion_rms_g > thresholds.motion_active_g
            THEN (r1 * 13) \div 10 ELSE r1
    ELSE IF need = "social" THEN
        IF detect_novelty(e, b) THEN (base_rate * 8) \div 10 ELSE base_rate
    ELSE IF need = "hygiene" THEN
        IF ~is_comfortable_temperature(e.temp_c)
        THEN (base_rate * 12) \div 10 ELSE base_rate
    ELSE base_rate

\* Satisfaction of rest only, without the hygiene bonus.
apply_environmental_satisfaction_rest_only(needs, e) ==
    IF /\ e.lux < thresholds.lux_dark
       /\ 4 * e.motion_rms_g < thresholds.motion_active_g
    THEN [needs EXCEPT !.rest = Min(NeedMax, needs.rest + 50)]
    ELSE needs

apply_environmental_satisfaction(needs, e) ==
    LET n1 == IF /\ e.lux < thresholds.lux_dark
                 /\ 4 * e.motion_rms_g < thresholds.motion_active_g
              THEN [needs EXCEPT !.rest = Min(NeedMax, needs.rest + 50)]
              ELSE needs
    IN  IF is_comfortable_temperature(e.temp_c) /\ 40 < e.rh /\ e.rh < 70
        THEN [n1 EXCEPT !.hygiene = Min(NeedMax, n1.hygiene + 20)]
        ELSE n1

clamp_needs_upper_only(needs) ==
    [n \in DOMAIN needs |-> Min(NeedMax, needs[n])]

\* for need in beast.needs: max(0.0, min(100.0, ...))
clamp_needs(needs) ==
    [n \in DOMAIN needs |-> Clamp(0, NeedMax, needs[n])]

\* needs_config[...]: the four base rates (drift_rate is in tenths).
base_rates ==
    [hunger |-> config.needs.hunger_base, rest |-> config.needs.rest_base,
     social |-> config.needs.social_base, hygiene |-> config.needs.hygiene_base]

\* current_time is the value time.time() returns in the call.
update_needs(b, e, acts, current_time) ==
    LET hours_passed == current_time - b.last_updated
        drifted == [n \in DOMAIN b.needs |->
            IF n \in DOMAIN base_rates
            THEN b.needs[n]
                 - (calculate_drift_rate(n, base_rates[n], e, b) * hours_passed
                    * config.needs.drift_rate) \div 10
                 + (IF n \in DOMAIN acts THEN acts[n] ELSE 0)
            ELSE b.needs[n]]
        satisfied == apply_environmental_satisfaction(drifted, e)
    IN  [b EXCEPT !.needs = clamp_needs(satisfied),
                  !.last_updated = current_time]

(***************************************************************************)
(* Traits                                                                  *)
(***************************************************************************)
learning_rate == 2

SumNeeds(needs) ==
    needs.hunger + needs.rest + needs.social + needs.hygiene

clamp_traits_upper_only(traits) ==
    [t \in DOMAIN traits |-> Min(TraitMax, traits[t])]

\* for trait in beast.traits: max(0.0, min(1.0, ...))
clamp_traits(traits) ==
    [t \in DOMAIN traits |-> Clamp(0, TraitMax, traits[t])]

\* tick_traits that lowers needy by the full learning rate.
tick_traits_full_decay(e, b, acts) ==
    LET t == b.traits
        playful == IF \/ e.motion_rms_g > thresholds.motion_active_g
                      \/ e.shake_events > 0
                      \/ "play" \in DOMAIN acts
                   THEN t.playful + learning_rate ELSE t.playful
        needy == IF SumNeeds(b.needs) < 4 * 4000
                 THEN t.needy + learning_rate
                 ELSE IF SumNeeds(b.needs) > 4 * 7000
                 THEN t.needy - learning_rate
                 ELSE t.needy
        rebellious == IF \E n \in DOMAIN b.needs : b.needs[n] < 2000
                      THEN t.rebellious + learning_rate ELSE t.rebellious
        social == IF "social_interaction" \in DOMAIN acts
                  THEN t.social + learning_rate ELSE t.social
        explorer == IF detect_novelty(e, b)
                    THEN t.explorer + learning_rate ELSE t.explorer
    IN  [b EXCEPT !.traits = clamp_traits(
            [playful |-> playful, needy |-> needy, rebellious |-> rebellious,
             social |-> social, explorer |-> explorer])]

\* tick_traits in which the social trait fades by half the learning rate on
\* a call without a social_interaction action.
tick_traits_social_fades(e, b, acts) ==
    LET r == tick_traits_full_decay(e, b, acts)
    IN  IF "social_interaction" \in DOMAIN acts THEN r
        ELSE [r EXCEPT !.traits.social = Max(0, @ - learning_rate \div 2)]

\* avg_need < 40 and avg_need > 70 are compared as sums of the four needs.
tick_traits(e, b, acts) ==
    LET t == b.traits
        playful == IF \/ e.motion_rms_g > thresholds.motion_active_g
                      \/ e.shake_events > 0
                      \/ "play" \in DOMAIN acts
                   THEN t.playful + learning_rate ELSE t.playful
        needy == IF SumNeeds(b.needs) < 4 * 4000
                 THEN t.needy + learning_rate
                 ELSE IF SumNeeds(b.needs) > 4 * 7000
                 THEN t.needy - learning_rate \div 2
                 ELSE t.needy
        rebellious == IF \E n \in DOMAIN b.needs : b.needs[n] < 2000
                      THEN t.rebellious + learning_rate ELSE t.rebellious
        social == IF "social_interaction" \in DOMAIN acts
                  THEN t.social + learning_rate ELSE t.social
        explorer == IF detect_novelty(e, b)
                    THEN t.explorer + learning_rate ELSE t.explorer
    IN  [b EXCEPT !.traits = clamp_traits(
            [playful |-> playful, needy |-> needy, rebellious |-> rebellious,
             social |-> social, explorer |-> explorer])]

(***************************************************************************)
(* Evolution                                                               *)
(***************************************************************************)
\* Exposure scores without the 0.5 given to lone when the beast is still.
exposure_scores_no_lone(e) ==
    [sun    |-> IF /\ e.lux > 1000
                   /\ e.temp_c > 20
                   /\ 2 * e.motion_rms_g > thresholds.motion_active_g
                THEN 10 ELSE 0,
     shadow |-> IF /\ e.lux < thresholds.lux_dark
                   /\ 4 * e.motion_rms_g < thresholds.motion_active_g
                THEN 10 ELSE 0,
     ember  |-> IF e.temp_c > thresholds.temp_hot THEN 10 ELSE 0,
     frost  |-> IF e.temp_c < thresholds.temp_cold THEN 10 ELSE 0,
     social |-> IF e.motion_rms_g > thresholds.motion_active_g THEN 5 ELSE 0,
     lone   |-> 0]

exposure_scores(e) ==
    [sun    |-> IF /\ e.lux > 1000
                   /\ e.temp_c > 20
                   /\ 2 * e.motion_rms_g > thresholds.motion_active_g
                THEN 10 ELSE 0,
     shadow |-> IF /\ e.lux < thresholds.lux_dark
                   /\ 4 * e.motion_rms_g < thresholds.motion_active_g
                THEN 10 ELSE 0,
     ember  |-> IF e.temp_c > thresholds.temp_hot THEN 10 ELSE 0,
     frost  |-> IF e.temp_c < thresholds.temp_cold THEN 10 ELSE 0,
     social |-> IF e.motion_rms_g > thresholds.motion_active_g THEN 5 ELSE 0,
     lone   |-> IF e.motion_rms_g > thresholds.motion_active_g THEN 0 ELSE 5]

\* max(exposure_scores.values())
MaxScore(scores) ==
    CHOOSE m \in {scores[p] : p \in DOMAIN scores} :
        \A p \in DOMAIN scores : scores[p] <= m

\* The last path, in the dict's insertion order, that has the highest score.
max_path_last(scores) ==
    LET i == CHOOSE k \in 1..Len(PathOrder) :
                /\ scores[PathOrder[k]] = MaxScore(scores)
                /\ \A j \in (k + 1)..Len(PathOrder) :
                      scores[PathOrder[j]] < MaxScore(scores)
    IN  PathOrder[i]

\* max(exposure_scores.items(), key=...)[0]: the first path, in the dict's
\* insertion order, that has the highest score.
max_path(scores) ==
    LET i == CHOOSE k \in 1..Len(PathOrder) :
                /\ scores[PathOrder[k]] = MaxScore(scores)
                /\ \A j \in 1..(k - 1) : scores[PathOrder[j]] < MaxScore(scores)
    IN  PathOrder[i]

switch_path_on_tie(b, scores) ==
    LET current_score == DictGet(scores, b.evolution_path, 0)
    IN  IF MaxScore(scores) >= current_score
        THEN max_path(scores) ELSE b.evolution_path

switch_path_keep_unknown(b, scores) ==
    LET current_score == DictGet(scores, b.evolution_path, 0)
    IN  IF /\ b.evolution_path \in DOMAIN scores
           /\ MaxScore(scores) > current_score + HysteresisMargin
        THEN max_path(scores) ELSE b.evolution_path

\* A margin wide enough to hold the path against a lead of 0.5.
switch_path_wide_margin(b, scores) ==
    LET current_score == DictGet(scores, b.evolution_path, 0)
    IN  IF MaxScore(scores) > current_score + 5
        THEN max_path(scores) ELSE b.evolution_path

\* Path switching with hysteresis: the path after the call.
switch_path(b, scores) ==
    LET current_score == DictGet(scores, b.evolution_path, 0)
    IN  IF MaxScore(scores) > current_score + HysteresisMargin
        THEN max_path(scores) ELSE b.evolution_path

stage_progression_unguarded(b, stage_goal) ==
    IF b.evolution_prog >= stage_goal
    THEN [b EXCEPT !.evolution_stage = b.evolution_stage + 1,
                   !.evolution_prog = 0]
    ELSE b

\* A stage that advances only once the progress has passed the goal.
stage_progression_strict(b, stage_goal) ==
    IF b.evolution_prog > stage_goal /\ b.evolution_stage < 4
    THEN [b EXCEPT !.evolution_stage = b.evolution_stage + 1,
                   !.evolution_prog = 0]
    ELSE b

\* Stage progression: b already carries the progress of this call.
stage_progression(b, stage_goal) ==
    IF b.evolution_prog >= stage_goal /\ b.evolution_stage < 4
    THEN [b EXCEPT !.evolution_stage = b.evolution_stage + 1,
                   !.evolution_prog = 0]
    ELSE b

\* An update that starts the progress afresh when the path switches.
update_evolution_restart_on_switch(e, b) ==
    LET scores == exposure_scores(e)
        progression_rate == DictGet(config.evolution, "progression_rate", 1)
        stage_goal == DictGet(config.evolution, "stage_goal", 1000)
        b1 == [b EXCEPT !.evolution_path = switch_path(b, scores)]
        b2 == [b1 EXCEPT !.evolution_prog =
                  (IF b1.evolution_path # b.evolution_path
                   THEN 0 ELSE b1.evolution_prog)
                  + progression_rate * Max(MaxScore(scores), ScoreFloor)]
    IN  stage_progression(b2, stage_goal)

\* An update that switches the path and leaves the progress alone.
update_evolution_path_only(e, b) ==
    [b EXCEPT !.evolution_path = switch_path(b, exposure_scores(e))]

\* progression_rate is the progress per 0.1 of exposure score, so that
\* 0.01 (the default) is 1 unit; stage_goal 1.0 is 1000 units.
update_evolution(e, b) ==
    LET scores == exposure_scores(e)
        progression_rate == DictGet(config.evolution, "progression_rate", 1)
        stage_goal == DictGet(config.evolution, "stage_goal", 1000)
        b1 == [b EXCEPT !.evolution_path = switch_path(b, scores)]
        b2 == [b1 EXCEPT !.evolution_prog =
                  b1.evolution_prog
                  + progression_rate * Max(MaxScore(scores), ScoreFloor)]
    IN  stage_progression(b2, stage_goal)

(***************************************************************************)
(* Missing configuration keys.  get_section returns the section dict (or   *)
(* {} for a missing section) and the engine indexes it with [...], which   *)
(* raises KeyError for a missing key; only pressure_stable, progression_   *)
(* rate and stage_goal are read with .get and a default.  The operators    *)
(* below follow the reads of each operation in the order of evaluation,    *)
(* short circuits included, and give the state the beast is left in when   *)
(* the operation raises (the operations mutate the beast in place).        *)
(***************************************************************************)
Has(section, key) == key \in DOMAIN config[section]

\* (thresholds['temp_cold'] + 5) <= temp_c <= (thresholds['temp_hot'] - 5):
\* temp_hot is read only when the first comparison holds.
comfortable_raises(temp_c) ==
    IF ~Has("thresholds", "temp_cold") THEN TRUE
    ELSE /\ thresholds.temp_cold + 5 <= temp_c
         /\ ~Has("thresholds", "temp_hot")

infer_mood_raises(e, b) ==
    IF ~Has("thresholds", "temp_hot") THEN TRUE
    ELSE IF HotRule(e, b) THEN FALSE
    ELSE IF ~Has("thresholds", "temp_cold") THEN TRUE
    ELSE IF ColdRule(e, b) THEN FALSE
    ELSE IF ~Has("power", "low_voltage") THEN TRUE
    ELSE IF SickRule(e, b) THEN FALSE
    ELSE IF ~Has("thresholds", "lux_dark") THEN TRUE
    ELSE IF e.lux < thresholds.lux_dark /\ ~Has("thresholds", "motion_active_g")
         THEN TRUE
    ELSE IF SleepyRule(e, b) THEN FALSE
    ELSE IF e.shake_events > 0 THEN FALSE
    ELSE IF ~Has("thresholds", "motion_active_g") THEN TRUE
    ELSE IF PlayfulRule(e, b) THEN FALSE
    ELSE IF ~Has("thresholds", "lux_bright") THEN TRUE
    ELSE FALSE

\* One iteration of the drift loop: _calculate_drift_rate, then
\* needs_config['drift_rate'].
drift_step_raises(need, e) ==
    \/ need = "hunger" /\ ~Has("thresholds", "motion_active_g")
    \/ need = "rest" /\ \/ ~Has("thresholds", "lux_bright")
                        \/ ~Has("thresholds", "motion_active_g")
    \/ need = "hygiene" /\ comfortable_raises(e.temp_c)
    \/ ~Has("needs", "drift_rate")

RECURSIVE drift_loop(_, _, _, _, _, _)
\* for need, base_rate in base_rates.items(): the needs dict after the loop,
\* or as the iteration that raised found it.
drift_loop(needs, i, b, e, acts, current_time) ==
    IF i > Len(NeedOrder) THEN [raised |-> FALSE, needs |-> needs]
    ELSE LET n == NeedOrder[i]
         IN  IF drift_step_raises(n, e)
             THEN [raised |-> TRUE, needs |-> needs]
             ELSE drift_loop(
                    [needs EXCEPT ![n] =
                        @ - (calculate_drift_rate(n, config.needs[n \o "_base"],
                                                  e, b)
                               * (current_time - b.last_updated)
                               * config.needs.drift_rate) \div 10
                          + (IF n \in DOMAIN acts THEN acts[n] ELSE 0)],
                    i + 1, b, e, acts, current_time)

\* _apply_environmental_satisfaction on the dict it mutates.
satisfaction_attempt(needs, e) ==
    IF ~Has("thresholds", "lux_dark") THEN [raised |-> TRUE, needs |-> needs]
    ELSE IF e.lux < thresholds.lux_dark /\ ~Has("thresholds", "motion_active_g")
    THEN [raised |-> TRUE, needs |-> needs]
    ELSE LET n1 == IF /\ e.lux < thresholds.lux_dark
                      /\ 4 * e.motion_rms_g < thresholds.motion_active_g
                   THEN [needs EXCEPT !.rest = Min(NeedMax, needs.rest + 50)]
                   ELSE needs
         IN  [raised |-> comfortable_raises(e.temp_c), needs |-> n1]

\* update_needs with its KeyErrors: whether it raised, and the beast.
update_needs_attempt(b, e, acts, current_time) ==
    IF \E n \in NeedNames : ~Has("needs", n \o "_base")
    THEN [raised |-> TRUE, beast |-> b]
    ELSE LET d == drift_loop(b.needs, 1, b, e, acts, current_time)
             s == satisfaction_attempt(d.needs, e)
         IN  IF d.raised
             THEN [raised |-> TRUE, beast |-> [b EXCEPT !.needs = d.needs]]
             ELSE IF s.raised
             THEN [raised |-> TRUE, beast |-> [b EXCEPT !.needs = s.needs]]
             ELSE [raised |-> FALSE,
                   beast |-> update_needs(b, e, acts, current_time)]

\* tick_traits reads thresholds['motion_active_g'] in its first condition.
tick_traits_key_error == ~Has("thresholds", "motion_active_g")

\* update_evolution reads lux_dark, temp_hot, temp_cold and motion_active_g
\* on every path, before it assigns anything.
update_evolution_raises ==
    \E key \in {"lux_dark", "temp_hot", "temp_cold", "motion_active_g"} :
        ~Has("thresholds", key)

(***************************************************************************)
(* Task generation.  A task descriptor is a constant dict per action, so   *)
(* a task is represented by its 'action'.                                  *)
(***************************************************************************)
TaskCap == 3

\* The task appended for a low need.
need_task(need) ==
    IF need = "hunger" THEN <<"feed">>
    ELSE IF need = "rest" THEN <<"quiet_time">>
    ELSE IF need = "social" THEN <<"meet_peer">>
    ELSE IF need = "hygiene" THEN <<"clean">>
    ELSE << >>

RECURSIVE need_tasks(_, _)
\* for need, value in beast.needs.items(): the tasks of the needs from
\* position i of the dict on.
need_tasks(b, i) ==
    IF i > Len(NeedOrder) THEN << >>
    ELSE (IF b.needs[NeedOrder[i]] < 4000
          THEN need_task(NeedOrder[i]) ELSE << >>) \o need_tasks(b, i + 1)

\* Thresholds that include the boundary values.
all_tasks_inclusive(b, e) ==
    (IF b.needs.hunger <= 4000 THEN <<"feed">> ELSE << >>)
    \o (IF b.needs.rest <= 4000 THEN <<"quiet_time">> ELSE << >>)
    \o (IF b.needs.social <= 4000 THEN <<"meet_peer">> ELSE << >>)
    \o (IF b.needs.hygiene <= 4000 THEN <<"clean">> ELSE << >>)
    \o (IF b.traits.explorer >= 140 THEN <<"new_location">> ELSE << >>)
    \o (IF b.traits.playful >= 140 THEN <<"play_session">> ELSE << >>)
    \o (IF e.lux <= 100 THEN <<"bright_spot">> ELSE << >>)

\* The list built before the truncation.
all_tasks(b, e) ==
    need_tasks(b, 1)
    \o (IF b.traits.explorer > 140 THEN <<"new_location">> ELSE << >>)
    \o (IF b.traits.playful > 140 THEN <<"play_session">> ELSE << >>)
    \o (IF e.lux < 100 THEN <<"bright_spot">> ELSE << >>)

generate_tasks_untruncated(b, e) == all_tasks(b, e)

\* The three tasks generated last.
generate_tasks_newest(b, e) ==
    LET tasks == all_tasks(b, e)
    IN  SubSeq(tasks, Max(1, Len(tasks) - TaskCap + 1), Len(tasks))

\* return tasks[:3]
generate_tasks(b, e) ==
    LET tasks == all_tasks(b, e)
    IN  SubSeq(tasks, 1, Min(TaskCap, Len(tasks)))

(***************************************************************************)
(* Inputs                                                                  *)
(***************************************************************************)
\* Snapshots of the unit and integration tests.
HotEnv        == EnvFeatures(35, 5000, 50, 0, 10, 0, 400, "test")
ShakeEnv      == EnvFeatures(20, 1000, 50, 0, 30, 2, 400, "test")
CalmEnv       == EnvFeatures(20, 1000, 50, 0, 10, 0, 400, "test")
SunEnv        == EnvFeatures(25, 8000, 50, 0, 30, 0, 400, "test")
\* Further snapshots: a dark quiet night without fingerprint, a hot bright
\* active one with every alarm raised, a freezing dark quiet one.
NightEnv      == EnvFeatures(18, 10, 50, 0, 2, 0, 400, "")
BlazeEnv      == EnvFeatures(36, 8000, 95, 0 - 50, 50, 4, 320, "")
FrostEnv      == EnvFeatures(4, 10, 5, 30, 2, 0, 400, "")

Envs == {HotEnv, ShakeEnv, SunEnv, NightEnv, BlazeEnv, FrostEnv}

\* Every combination of the values that lie on each side of, and on, the
\* thresholds of both configurations.
EnvGrid ==
    {EnvFeatures(t, l, h, p, m, s, v, f) :
        t \in {5, 10, 20, 27, 30, 35}, l \in {10, 50, 1000, 8000},
        h \in {5, 50, 95}, p \in {0, 30, 0 - 50}, m \in {2, 8, 20, 50},
        s \in {0, 1, 4}, v \in {320, 400}, f \in {"", "test"}}

\* actions=None / {}
NoActions == [k \in {} |-> 0]

\* Actions for tick_traits.
TraitActions ==
    {NoActions, [play |-> TRUE], [social_interaction |-> TRUE]}

\* Values of time.time(), in hours.  The clock of the device is not
\* monotonic (no RTC), and a restored beast may carry a later last_updated.
Clock == {1, 48}

\* The calls of update_needs: actions and the time of the call.
NeedCalls ==
    {<<NoActions, 1>>, <<NoActions, 48>>, <<[hunger |-> 2000], 0>>,
     <<[hunger |-> 100000, rest |-> 0 - 100000, social |-> 0 - 1], 1>>}

\* Beasts the engine starts from: the default one, and beasts restored from
\* a persisted snapshot by Beast(**data).
DefaultBeast == create_default_beast(0)

NeglectedBeast ==
    PostInit(
    [mood |-> "anxious",
     needs |-> [hunger |-> 1000, rest |-> 0 - 300, social |-> 3500,
                hygiene |-> 10000],
     traits |-> [playful |-> 200, needy |-> 199, rebellious |-> 200,
                 social |-> 0, explorer |-> 199],
     evolution_path |-> "frost",
     evolution_stage |-> 3,
     evolution_prog |-> 995,
     energy |-> 30,
     last_updated |-> 50])

ContentBeast ==
    PostInit(
    [mood |-> "happy",
     needs |-> [hunger |-> 10000, rest |-> 9000, social |-> 8000,
                hygiene |-> 10000],
     traits |-> [playful |-> 0, needy |-> 0, rebellious |-> 0,
                 social |-> 200, explorer |-> 200],
     evolution_path |-> "ember",
     evolution_stage |-> 4,
     evolution_prog |-> 995,
     energy |-> 10,
     last_updated |-> 0])

\* A snapshot written with an evolution path this engine does not know.
StrayBeast ==
    PostInit(
    [mood |-> "calm",
     needs |-> [hunger |-> 5000, rest |-> 5000, social |-> 3500,
                hygiene |-> 5000],
     traits |-> [playful |-> 100, needy |-> 100, rebellious |-> 100,
                 social |-> 100, explorer |-> 100],
     evolution_path |-> "moon",
     evolution_stage |-> 1,
     evolution_prog |-> 0,
     energy |-> 50,
     last_updated |-> 1])

InitBeasts == {DefaultBeast, NeglectedBeast, ContentBeast, StrayBeast}

(***************************************************************************)
(* The engine driven through its public operations                         *)
(***************************************************************************)
Called(op, e, acts, t) == [op |-> op, env |-> e, actions |-> acts, now |-> t]

\* The engine used as a library: no StateService process.
NoService ==
    [pc |-> "none", running |-> FALSE, db |-> << >>, stages |-> << >>,
     dirty |-> FALSE, events |-> << >>]

Init ==
    /\ config \in Configs
    /\ beast \in InitBeasts
    /\ pre = beast
    /\ call = Called("init", CalmEnv, NoActions, 0)
    /\ ret = "none"
    /\ steps = 0
    /\ service = NoService

\* infer_mood with a memory: the fingerprint of the previous infer_mood call
\* is remembered and a repeated fingerprint is no longer novel.
InferMoodRemembering(e) ==
    /\ ret' = IF /\ infer_mood(e, beast) = "curious"
                 /\ call.op = "infer_mood"
                 /\ call.env.ssid_fingerprint = e.ssid_fingerprint
                 /\ e.shake_events <= 2
              THEN IF BoredRule(e, beast) THEN "bored"
                   ELSE IF AnxiousRule(e, beast) THEN "anxious"
                   ELSE "calm"
              ELSE infer_mood(e, beast)
    /\ pre' = beast
    /\ call' = Called("infer_mood", e, NoActions, 0)
    /\ UNCHANGED <<config, beast>>

\* mood = engine.infer_mood(env, beast)
InferMood(e) ==
    /\ ret' = IF infer_mood_raises(e, beast) THEN "KeyError"
              ELSE infer_mood(e, beast)
    /\ pre' = beast
    /\ call' = Called("infer_mood", e, NoActions, 0)
    /\ UNCHANGED <<config, beast>>

\* beast = engine.update_needs(beast, env, actions)
UpdateNeeds(e, acts, t) ==
    /\ LET result == update_needs_attempt(beast, e, acts, t)
       IN  /\ beast' = result.beast
           /\ ret' = IF result.raised THEN "KeyError" ELSE ret
    /\ pre' = beast
    /\ call' = Called("update_needs", e, acts, t)
    /\ UNCHANGED config

\* beast = engine.tick_traits(env, beast, actions)
TickTraits(e, acts) ==
    /\ beast' = IF tick_traits_key_error THEN beast
                ELSE tick_traits(e, beast, acts)
    /\ ret' = IF tick_traits_key_error THEN "KeyError" ELSE ret
    /\ pre' = beast
    /\ call' = Called("tick_traits", e, acts, 0)
    /\ UNCHANGED config

\* beast = engine.update_evolution(env, beast)
UpdateEvolution(e) ==
    /\ beast' = IF update_evolution_raises THEN beast
                ELSE update_evolution(e, beast)
    /\ ret' = IF update_evolution_raises THEN "KeyError" ELSE ret
    /\ pre' = beast
    /\ call' = Called("update_evolution", e, NoActions, 0)
    /\ UNCHANGED config

\* tasks = engine.generate_tasks(beast, env)
GenerateTasks(e) ==
    /\ ret' = generate_tasks(beast, e)
    /\ pre' = beast
    /\ call' = Called("generate_tasks", e, NoActions, 0)
    /\ UNCHANGED <<config, beast>>

\* A tick that classifies the mood last, from the updated beast.
TickMoodLast(e, t) ==
    /\ LET b1 == update_needs(beast, e, NoActions, t)
           b2 == tick_traits(e, b1, NoActions)
           b3 == update_evolution(e, b2)
           mood == infer_mood(e, b3)
       IN  /\ beast' = [b3 EXCEPT !.mood = mood]
           /\ ret' = mood
    /\ pre' = beast
    /\ call' = Called("tick", e, NoActions, t)
    /\ UNCHANGED config

\* One tick of the pipeline as the demo and the day simulation drive it:
\* mood, needs, traits, evolution, each on the beast the previous one left.
Tick(e, t) ==
    /\ LET mood == infer_mood(e, beast)
           b0 == [beast EXCEPT !.mood = mood]
           b1 == update_needs(b0, e, NoActions, t)
           b2 == tick_traits(e, b1, NoActions)
           b3 == update_evolution(e, b2)
       IN  /\ beast' = b3
           /\ ret' = mood
    /\ pre' = beast
    /\ call' = Called("tick", e, NoActions, t)
    /\ UNCHANGED config

\* An operation of a call sequence of bounded length.
Bounded(Op) ==
    /\ steps < MaxSteps
    /\ steps' = steps + 1
    /\ Op
    /\ UNCHANGED service

Next ==
    \/ \E e \in Envs : Bounded(InferMood(e))
    \/ \E e \in Envs, c \in NeedCalls : Bounded(UpdateNeeds(e, c[1], c[2]))
    \/ \E e \in Envs, acts \in TraitActions : Bounded(TickTraits(e, acts))
    \/ \E e \in Envs : Bounded(UpdateEvolution(e))
    \/ \E e \in Envs, t \in Clock : Bounded(Tick(e, t))

Spec == Init /\ [][Next]_vars

(***************************************************************************)
(* infer_mood as a function: every snapshot of the grid, every starting    *)
(* beast, one call.                                                        *)
(***************************************************************************)
InitMood ==
    /\ config \in Configs
    /\ beast \in InitBeasts
    /\ pre = beast
    /\ call \in {Called("init", e, NoActions, 0) : e \in EnvGrid}
    /\ ret = "none"
    /\ steps = 0
    /\ service = NoService

NextMood == call.op = "init" /\ Bounded(InferMood(call.env))

SpecMood == InitMood /\ [][NextMood]_vars

(***************************************************************************)
(* update_evolution called over and over, as the evolution scenario test   *)
(* does, for as long as the progress stays below ProgCap.                  *)
(***************************************************************************)
ProgCap == 1100

InitEvolution ==
    /\ config \in Configs
    /\ beast \in {DefaultBeast, StrayBeast}
    /\ pre = beast
    /\ call = Called("init", CalmEnv, NoActions, 0)
    /\ ret = "none"
    /\ steps = 0
    /\ service = NoService

NextEvolution ==
    /\ beast.evolution_prog < ProgCap
    /\ \E e \in Envs : UpdateEvolution(e)
    /\ UNCHANGED <<steps, service>>

SpecEvolution == InitEvolution /\ [][NextEvolution]_vars

(***************************************************************************)
(* The engine under a configuration that lacks one of the keys it reads    *)
(* (a defaults file without the key, or no defaults file for the section). *)
(***************************************************************************)
Without(cfg, section, key) ==
    [cfg EXCEPT ![section] =
        [k \in (DOMAIN cfg[section]) \ {key} |-> cfg[section][k]]]

PartialConfigs ==
    {Without(DefaultConfig, "thresholds", "temp_hot"),
     Without(DefaultConfig, "thresholds", "lux_dark"),
     Without(DefaultConfig, "needs", "hunger_base"),
     Without(DefaultConfig, "needs", "drift_rate"),
     Without(DefaultConfig, "power", "low_voltage")}

InitPartial ==
    /\ config \in PartialConfigs
    /\ beast \in InitBeasts
    /\ pre = beast
    /\ call = Called("init", CalmEnv, NoActions, 0)
    /\ ret = "none"
    /\ steps = 0
    /\ service = NoService

NextPartial ==
    \/ \E e \in Envs : Bounded(InferMood(e))
    \/ \E e \in Envs, t \in Clock : Bounded(UpdateNeeds(e, NoActions, t))
    \/ \E e \in Envs : Bounded(TickTraits(e, NoActions))
    \/ \E e \in Envs : Bounded(UpdateEvolution(e))

SpecPartial == InitPartial /\ [][NextPartial]_vars

(***************************************************************************)
(* generate_tasks as a function: beasts with each need and the explorer    *)
(* and playful traits below, at and above the task thresholds, snapshots   *)
(* with the light below, at and above 100 lux, one call.                   *)
(***************************************************************************)
TaskBeasts ==
    {[DefaultBeast EXCEPT !.needs = [hunger |-> hu, rest |-> re,
                                     social |-> so, hygiene |-> hy],
                          !.traits.explorer = ex,
                          !.traits.playful = pl] :
        hu \in {2000, 4000, 7500}, re \in {3999, 4000, 8000},
        so \in {0, 8000}, hy \in {3999, 8000},
        ex \in {140, 141}, pl \in {140, 200}}

TaskEnvs == {EnvFeatures(20, l, 50, 0, 10, 0, 400, "test") : l \in {99, 100, 1000}}

InitTasks ==
    /\ config \in Configs
    /\ beast \in TaskBeasts
    /\ pre = beast
    /\ call \in {Called("init", e, NoActions, 0) : e \in TaskEnvs}
    /\ ret = "none"
    /\ steps = 0
    /\ service = NoService

NextTasks == call.op = "init" /\ Bounded(GenerateTasks(call.env))

SpecTasks == InitTasks /\ [][NextTasks]_vars

(***************************************************************************)
(* The evolution scenario of the integration test: a default beast and     *)
(* ScenarioTicks calls of update_evolution, each on a mock sensor reading  *)
(* whose temperature, light and motion are set to 25, 8000 and 0.3.        *)
(***************************************************************************)
ScenarioTicks == 10

ScenarioEnvs ==
    {EnvFeatures(25, 8000, h, p, 30, s, v, f) :
        h \in {5, 50, 95}, p \in {0, 30}, s \in {0, 4}, v \in {320, 400},
        f \in {"", "test"}}

InitScenario ==
    /\ config \in Configs
    /\ beast = DefaultBeast
    /\ pre = beast
    /\ call = Called("init", CalmEnv, NoActions, 0)
    /\ ret = "none"
    /\ steps = 0
    /\ service = NoService

NextScenario ==
    /\ steps < ScenarioTicks
    /\ steps' = steps + 1
    /\ \E e \in ScenarioEnvs : UpdateEvolution(e)
    /\ UNCHANGED service

SpecScenario == InitScenario /\ [][NextScenario]_vars

(***************************************************************************)
(* The classifier called again and again between the other operations, on  *)
(* snapshots that reach the novelty rule and on snapshots that do not.     *)
(***************************************************************************)
RepeatEnvs == {CalmEnv, ShakeEnv, NightEnv}

NextRepeat ==
    \/ \E e \in RepeatEnvs : Bounded(InferMood(e))
    \/ \E e \in RepeatEnvs, t \in Clock : Bounded(UpdateNeeds(e, NoActions, t))
    \/ \E e \in RepeatEnvs : Bounded(TickTraits(e, NoActions))
    \/ \E e \in RepeatEnvs : Bounded(UpdateEvolution(e))

SpecRepeat == Init /\ [][NextRepeat]_vars

(***************************************************************************)
(* StateService (src/services/state_service.py) next to the scripts that   *)
(* drive the same pipeline themselves (src/demo.py,                        *)
(* src/tests/simulate_day.py).  One loop iteration of run() is one step:   *)
(* the only points at which another process can observe the beast are the  *)
(* rows written to state_snapshot.  The time of an iteration is drawn from *)
(* Clock; events holds the types of the history_events rows written by     *)
(* log_event, oldest first.                                                *)
(***************************************************************************)
PipelineStages == <<"infer_mood", "update_needs", "tick_traits", "update_evolution">>

\* StateService.__init__ followed by the first lines of run(): the beast was
\* loaded or created, running is True, nothing written yet by this process.
StartedService ==
    [pc |-> "loop", running |-> TRUE, db |-> << >>, stages |-> << >>,
     dirty |-> FALSE, events |-> << >>]

\* A state_snapshot row: the beast saved, and whether an abandoned tick had
\* left its first stages in that beast.
Row(b, dirty) == [beast |-> b, dirty |-> dirty]

\* tick_traits(env, beast) first evaluates env.motion_rms_g: AttributeError
\* when the object bound to env has no such attribute.
tick_traits_raises(e, b) == "motion_rms_g" \notin DOMAIN e

\* The records logged at 94-114 for a tick that took the beast from old to
\* new: mood_change when the mood differs, evolution_change when the stage
\* or the path differs.
change_events(old, new) ==
    (IF new.mood # old.mood THEN <<"mood_change">> ELSE << >>) \o
    (IF new.evolution_stage # old.evolution_stage
        \/ new.evolution_path # old.evolution_path
     THEN <<"evolution_change">> ELSE << >>)

\* Loop iteration with sensor data (state_service.py 74-132).  The third
\* stage is called as tick_traits(self.beast, latest_env): the beast is bound
\* to env and the snapshot to beast.  An exception leaves the iteration
\* through the handler at 139-140, which only logs; self.beast keeps what
\* the earlier stages assigned.
ServiceTick(e, t) ==
    /\ service.pc = "loop"
    /\ service.running
    /\ steps < MaxSteps
    /\ steps' = steps + 1
    /\ LET mood == infer_mood(e, beast)
           b0 == [beast EXCEPT !.mood = mood]
           b1 == update_needs(b0, e, NoActions, t)
           raised == tick_traits_raises(b1, e)
           b2 == tick_traits(b1, e, NoActions)
           b3 == update_evolution(e, b2)
       IN  /\ ret' = mood
           /\ IF raised
              THEN /\ beast' = b1
                   /\ service' = [service EXCEPT
                          !.stages = SubSeq(PipelineStages, 1, 2),
                          !.dirty = TRUE]
              ELSE /\ beast' = b3
                   /\ service' = [service EXCEPT
                          !.stages = PipelineStages,
                          !.events = @ \o change_events(beast, b3),
                          !.db = Append(@, Row(b3, service.dirty))]
    /\ pre' = beast
    /\ call' = Called("service_tick", e, NoActions, t)
    /\ UNCHANGED config

\* An iteration without sensor data that updates the needs on a stock
\* snapshot instead of skipping the update.
ServiceNoDataFallback ==
    /\ service.pc = "loop"
    /\ service.running
    /\ steps < MaxSteps
    /\ steps' = steps + 1
    /\ beast' = update_needs(beast, CalmEnv, NoActions, 48)
    /\ service' = [service EXCEPT !.stages = SubSeq(PipelineStages, 2, 2)]
    /\ pre' = beast
    /\ call' = Called("service_idle", call.env, NoActions, call.now)
    /\ UNCHANGED <<config, ret>>

\* Loop iteration without sensor data of the last hour (136-137): a warning.
ServiceNoData ==
    /\ service.pc = "loop"
    /\ service.running
    /\ steps < MaxSteps
    /\ steps' = steps + 1
    /\ service' = [service EXCEPT !.stages = << >>]
    /\ pre' = beast
    /\ call' = Called("service_idle", call.env, NoActions, call.now)
    /\ UNCHANGED <<config, beast, ret>>

\* _signal_handler on SIGTERM or SIGINT.
SignalHandler ==
    /\ service.pc = "loop"
    /\ service.running
    /\ service' = [service EXCEPT !.running = FALSE]
    /\ UNCHANGED <<config, beast, pre, call, ret, steps>>

\* A stop that leaves the loop without the save of the finally block.
ServiceStopWithoutSave ==
    /\ service.pc = "loop"
    /\ ~service.running
    /\ service' = [service EXCEPT !.pc = "stopped"]
    /\ pre' = beast
    /\ call' = Called("service_stop", call.env, NoActions, call.now)
    /\ UNCHANGED <<config, beast, ret, steps>>

\* The loop condition fails; the finally block saves self.beast (150-153).
ServiceStop ==
    /\ service.pc = "loop"
    /\ ~service.running
    /\ service' = [service EXCEPT
           !.pc = "stopped",
           !.db = Append(@, Row(beast, service.dirty))]
    /\ pre' = beast
    /\ call' = Called("service_stop", call.env, NoActions, call.now)
    /\ UNCHANGED <<config, beast, ret, steps>>

InitDrivers ==
    /\ config \in Configs
    /\ beast \in InitBeasts
    /\ pre = beast
    /\ call = Called("init", CalmEnv, NoActions, 0)
    /\ ret = "none"
    /\ steps = 0
    /\ service \in {NoService, StartedService}

NextDrivers ==
    \/ \E e \in Envs, t \in Clock : service.pc = "none" /\ Bounded(Tick(e, t))
    \/ \E e \in Envs, t \in Clock : ServiceTick(e, t)
    \/ ServiceNoData
    \/ SignalHandler
    \/ ServiceStop

SpecDrivers == InitDrivers /\ [][NextDrivers]_vars

\* The loop condition is evaluated again after every iteration and its
\* sleep, which both end: a stop that is due is taken.
SpecDriversFair == SpecDrivers /\ WF_vars(ServiceStop)

(***************************************************************************)
(* The StateService loop on the wall clock.  clock is time.time() at the   *)
(* start of the next iteration, in whole seconds; started is its value at  *)
(* the first iteration; task_calls counts the calls of generate_tasks.     *)
(* The beast's last_updated and the time update_needs reads are in hours.  *)
(***************************************************************************)
RunSeconds == 3700

update_interval == 10

\* Seconds an iteration's work can take: less and more than the interval.
TickDurations == {2, 11}

TimedService(start) ==
    [pc |-> "loop", running |-> TRUE, db |-> << >>, stages |-> << >>,
     dirty |-> FALSE, events |-> << >>, clock |-> start, started |-> start,
     task_calls |-> 0]

\* int(start_time) % 3600 == 0
hourly_due(start_time) == start_time % 3600 = 0

\* Loop iteration with sensor data (state_service.py 68-146), with the
\* hourly task generation and the sleep for the rest of the interval.
TimedServiceTick(e, duration) ==
    /\ service.pc = "loop"
    /\ service.running
    /\ service.clock < RunSeconds
    /\ LET start_time == service.clock
           mood == infer_mood(e, beast)
           b0 == [beast EXCEPT !.mood = mood]
           b1 == update_needs(b0, e, NoActions, start_time \div 3600)
           raised == tick_traits_raises(b1, e)
           b2 == tick_traits(b1, e, NoActions)
           b3 == update_evolution(e, b2)
           due == hourly_due(start_time)
           next_start == start_time + Max(update_interval, duration)
       IN  /\ ret' = mood
           /\ call' = Called("service_tick", e, NoActions,
                             start_time \div 3600)
           /\ IF raised
              THEN /\ beast' = b1
                   /\ service' = [service EXCEPT
                          !.stages = SubSeq(PipelineStages, 1, 2),
                          !.dirty = TRUE,
                          !.clock = next_start]
              ELSE /\ beast' = b3
                   /\ service' = [service EXCEPT
                          !.stages = PipelineStages,
                          !.events = @ \o change_events(beast, b3)
                                       \o (IF due /\ generate_tasks(b3, e)
                                                       # << >>
                                           THEN <<"tasks_generated">>
                                           ELSE << >>),
                          !.db = Append(@, Row(b3, service.dirty)),
                          !.task_calls = IF due THEN @ + 1 ELSE @,
                          !.clock = next_start]
    /\ pre' = beast
    /\ UNCHANGED <<config, steps>>

InitHourly ==
    /\ config = DefaultConfig
    /\ beast = DefaultBeast
    /\ pre = beast
    /\ call = Called("init", CalmEnv, NoActions, 0)
    /\ ret = "none"
    /\ steps = 0
    /\ service \in {TimedService(start) : start \in {0, 5}}

NextHourly ==
    \E duration \in TickDurations : TimedServiceTick(CalmEnv, duration)

SpecHourly == InitHourly /\ [][NextHourly]_vars

(***************************************************************************)
(* The state_snapshot table of ByteBeastDB.  A row holds the JSON document *)
(* of a beast and the clock second of the save.  The wall clock is counted *)
(* in half seconds, so that two saves can fall into one second.            *)
(***************************************************************************)
MaxSaves == 2
MaxClock == 2

\* int(time.time()) with the wall clock in half seconds.
ts_of(clock) == clock \div 2

\* json.dumps of the eight fields of the beast, and json.loads of it.
beast_data(b) ==
    [mood |-> b.mood,
     needs |-> b.needs,
     traits |-> b.traits,
     evolution_path |-> b.evolution_path,
     evolution_stage |-> b.evolution_stage,
     evolution_prog |-> b.evolution_prog,
     energy |-> b.energy,
     last_updated |-> b.last_updated]

\* The table before the first save.
EmptyStore ==
    [pc |-> "store", running |-> FALSE, db |-> << >>, stages |-> << >>,
     dirty |-> FALSE, events |-> << >>, clock |-> 0]

\* The rows ORDER BY ts DESC may put first: every row of the highest ts
\* (SQL leaves the order of rows with equal keys open).
latest_rows(db) ==
    {i \in 1..Len(db) : \A j \in 1..Len(db) : db[j].ts <= db[i].ts}

\* save_beast_state(beast): appends a row stamped with the clock second.
SaveBeastState ==
    /\ Len(service.db) < MaxSaves
    /\ service' = [service EXCEPT
           !.db = Append(@, [json |-> beast_data(beast),
                             ts |-> ts_of(service.clock)])]
    /\ pre' = beast
    /\ call' = Called("save_beast_state", call.env, NoActions, service.clock)
    /\ UNCHANGED <<config, beast, ret, steps>>

\* load_latest_beast_state(): None on an empty table, else Beast(**data) of
\* the first row of ORDER BY ts DESC.
LoadLatestBeastState ==
    /\ IF service.db = << >>
       THEN ret' = [found |-> FALSE]
       ELSE \E i \in latest_rows(service.db) :
                ret' = [found |-> TRUE, beast |-> PostInit(service.db[i].json)]
    /\ call' = Called("load_latest_beast_state", call.env, NoActions,
                      service.clock)
    /\ UNCHANGED <<config, beast, pre, steps, service>>

\* Half a second passes.
ClockAdvance ==
    /\ service.clock < MaxClock
    /\ service' = [service EXCEPT !.clock = @ + 1]
    /\ UNCHANGED <<config, beast, pre, call, ret, steps>>

\* An engine tick between two saves.
StoreTick(e, t) ==
    /\ steps < MaxSteps
    /\ steps' = steps + 1
    /\ Tick(e, t)
    /\ UNCHANGED service

InitStore ==
    /\ config = DefaultConfig
    /\ beast \in InitBeasts
    /\ pre = beast
    /\ call = Called("init", CalmEnv, NoActions, 0)
    /\ ret = "none"
    /\ steps = 0
    /\ service = EmptyStore

NextStore ==
    \/ \E e \in RepeatEnvs : StoreTick(e, 1)
    \/ SaveBeastState
    \/ LoadLatestBeastState
    \/ ClockAdvance

SpecStore == InitStore /\ [][NextStore]_vars

(***************************************************************************)
(* Power policy (src/power/manager.py).  get_power_policy reads the        *)
(* display section of the configuration, which every program obtains from  *)
(* get_config() without a path, i.e. from the shipped defaults file.  That *)
(* file is not part of the sources at hand; the profiles below are display *)
(* sections that agree with what the tests state about it (fps_active is   *)
(* present, and a battery at 15 % with the low flag set is dimmed and      *)
(* drawn at fewer than 10 frames per second).  Percentages are whole       *)
(* per cent, brightness is in tenths.                                      *)
(***************************************************************************)
DisplayProfiles ==
    {[fps_active |-> 10, fps_idle |-> 2, battery_shutdown_pct |-> 5,
      battery_static_pct |-> 10, battery_dim_pct |-> 20],
     [fps_active |-> 30, fps_idle |-> 5, battery_shutdown_pct |-> 3,
      battery_static_pct |-> 8, battery_dim_pct |-> 25],
     [fps_active |-> 10, fps_idle |-> 9, battery_shutdown_pct |-> 5,
      battery_static_pct |-> 15, battery_dim_pct |-> 15],
     [fps_active |-> 2, fps_idle |-> 1, battery_shutdown_pct |-> 0,
      battery_static_pct |-> 10, battery_dim_pct |-> 30]}

\* The configuration with a display section.
WithDisplay(cfg, d) ==
    [s \in DOMAIN cfg \cup {"display"} |->
        IF s = "display" THEN d ELSE cfg[s]]

\* PowerState, with the fields get_power_policy reads.
PowerState(pct, low, critical) ==
    [battery_percent |-> pct, low_battery |-> low,
     critical_battery |-> critical]

\* Battery levels on each side of, and on, the thresholds of the profiles;
\* the flags are set by the voltage, independently of the percentage.
PowerStates ==
    {PowerState(pct, low, critical) :
        pct \in {0, 3, 4, 5, 6, 8, 10, 11, 15, 16, 20, 21, 25, 26, 30, 31,
                 50, 100},
        low \in BOOLEAN, critical \in BOOLEAN}

PowerPolicy(fps, dim, static_mode, shutdown, brightness) ==
    [fps |-> fps, dim |-> dim, static_mode |-> static_mode,
     shutdown |-> shutdown, brightness |-> brightness]

\* get_power_policy without the low_battery flag in the dim rule.
get_power_policy_percent_only(power_state) ==
    LET display_config == config.display
    IN  IF \/ power_state.battery_percent
                 <= display_config.battery_shutdown_pct
           \/ power_state.critical_battery
        THEN PowerPolicy(1, TRUE, TRUE, TRUE, 1)
        ELSE IF power_state.battery_percent
                    <= display_config.battery_static_pct
        THEN PowerPolicy(1, TRUE, TRUE, FALSE, 2)
        ELSE IF power_state.battery_percent <= display_config.battery_dim_pct
        THEN PowerPolicy(display_config.fps_idle, TRUE, FALSE, FALSE, 5)
        ELSE PowerPolicy(display_config.fps_active, FALSE, FALSE, FALSE, 10)

get_power_policy(power_state) ==
    LET display_config == config.display
    IN  IF \/ power_state.battery_percent
                 <= display_config.battery_shutdown_pct
           \/ power_state.critical_battery
        THEN PowerPolicy(1, TRUE, TRUE, TRUE, 1)
        ELSE IF power_state.battery_percent
                    <= display_config.battery_static_pct
        THEN PowerPolicy(1, TRUE, TRUE, FALSE, 2)
        ELSE IF \/ power_state.battery_percent
                      <= display_config.battery_dim_pct
                \/ power_state.low_battery
        THEN PowerPolicy(display_config.fps_idle, TRUE, FALSE, FALSE, 5)
        ELSE PowerPolicy(display_config.fps_active, FALSE, FALSE, FALSE, 10)

GetPowerPolicy(power_state) ==
    /\ ret' = get_power_policy(power_state)
    /\ call' = Called("get_power_policy", power_state, NoActions, 0)
    /\ UNCHANGED <<config, beast, pre>>

InitPower ==
    /\ config \in {WithDisplay(DefaultConfig, d) : d \in DisplayProfiles}
    /\ beast = DefaultBeast
    /\ pre = beast
    /\ call = Called("init", CalmEnv, NoActions, 0)
    /\ ret = "none"
    /\ steps = 0
    /\ service = NoService

NextPower ==
    \E power_state \in PowerStates : Bounded(GetPowerPolicy(power_state))

SpecPower == InitPower /\ [][NextPower]_vars

\* An override file for a quick evolution: progression_rate 0.05 and
\* stage_goal 0.2.
ClimbConfig ==
    [CustomConfig EXCEPT
        !.evolution = [progression_rate |-> 5, stage_goal |-> 200]]

\* update_evolution called for ever, the infinite sequence of snapshots that
\* a running tick loop supplies, under the two override files.
InitClimb ==
    /\ config \in {CustomConfig, ClimbConfig}
    /\ beast \in {DefaultBeast, StrayBeast}
    /\ pre = beast
    /\ call = Called("init", CalmEnv, NoActions, 0)
    /\ ret = "none"
    /\ steps = 0
    /\ service = NoService

SpecClimb == InitClimb /\ [][NextEvolution]_vars /\ WF_vars(NextEvolution)

(***************************************************************************)
(* A beast made by create_default_beast and changed by the five engine     *)
(* operations only (and by the scripts' tick, which chains four of them).  *)
(***************************************************************************)
InitFresh ==
    /\ config \in Configs
    /\ beast = create_default_beast(0)
    /\ pre = beast
    /\ call = Called("init", CalmEnv, NoActions, 0)
    /\ ret = "none"
    /\ steps = 0
    /\ service = NoService

NextFresh ==
    \/ Next
    \/ \E e \in Envs : Bounded(GenerateTasks(e))

SpecFresh == InitFresh /\ [][NextFresh]_vars

(***************************************************************************)
(* PowerService (src/services/power_service.py) and the PowerManager it    *)
(* owns.  One loop iteration is one step.  The service record holds the    *)
(* manager's _last_power_state (a sequence, empty for None) and            *)
(* _shutdown_initiated, the service's last_policy and                      *)
(* shutdown_warning_sent, the types of the events written by log_event,    *)
(* the number of shutdown sequences started, and prev, the reading of the  *)
(* iteration before (empty before the first).  mode tells whether          *)
(* read_power_state reads the INA219 or makes mock data.                   *)
(***************************************************************************)
Reading(pct, charging, low, critical) ==
    [battery_percent |-> pct, charging |-> charging, low_battery |-> low,
     critical_battery |-> critical]

\* Readings of a healthy, a lower, a low and a critical battery, on and off
\* the charger.
Readings ==
    {Reading(r[1], c, r[2], r[3]) :
        r \in {<<50, FALSE, FALSE>>, <<40, FALSE, FALSE>>,
               <<15, TRUE, FALSE>>, <<3, TRUE, TRUE>>},
        c \in BOOLEAN}

\* The state returned when the sensor fails before any reading succeeded.
FailedReading == Reading(0, FALSE, TRUE, TRUE)

StartedPowerService(mode) ==
    [pc |-> "power", running |-> TRUE, db |-> << >>, stages |-> << >>,
     dirty |-> FALSE, events |-> << >>, mode |-> mode,
     last_power_state |-> << >>, prev |-> << >>, last_policy |-> << >>,
     shutdown_warning_sent |-> FALSE, shutdown_initiated |-> FALSE,
     shutdowns |-> 0]

\* read_power_state: what it returns for the sensor's value, and the
\* _last_power_state it leaves.  Only the sensor branch assigns
\* _last_power_state; a failing sensor gives the last state back.
read_power_state(mode, sensed, failed, last) ==
    IF mode = "mock" THEN [state |-> sensed, last |-> last]
    ELSE IF failed
    THEN [state |-> IF last # << >> THEN last[1] ELSE FailedReading,
          last |-> last]
    ELSE [state |-> sensed, last |-> <<sensed>>]

\* monitor_power_events(power_state) with _last_power_state = last.
monitor_power_events(power_state, last) ==
    IF last = << >> THEN << >>
    ELSE (IF Abs(power_state.battery_percent - last[1].battery_percent) > 5
          THEN <<"battery_level_change">> ELSE << >>)
         \o (IF power_state.charging # last[1].charging
             THEN <<"charging_status_change">> ELSE << >>)
         \o (IF ~last[1].low_battery /\ power_state.low_battery
             THEN <<"low_battery_warning">> ELSE << >>)
         \o (IF ~last[1].critical_battery /\ power_state.critical_battery
             THEN <<"critical_battery_warning">> ELSE << >>)

\* A shutdown started on every iteration whose policy asks for it.
shutdown_due_unlatched(policy, shutdown_warning_sent) == policy.shutdown

\* policy.shutdown and not self.shutdown_warning_sent
shutdown_due(policy, shutdown_warning_sent) ==
    policy.shutdown /\ ~shutdown_warning_sent

\* initiate_shutdown: returns at once when a shutdown was initiated before.
initiate_shutdown(s) ==
    IF s.shutdown_initiated THEN s
    ELSE [s EXCEPT !.shutdown_initiated = TRUE, !.shutdowns = @ + 1]

RECURSIVE power_event_names(_)
\* f"power_{event['type']}" for each event.
power_event_names(events) ==
    IF events = << >> THEN << >>
    ELSE <<"power_" \o Head(events)>> \o power_event_names(Tail(events))

\* One iteration of PowerService.run (power_service.py 73-152).
PowerTick(sensed, failed) ==
    /\ service.pc = "power"
    /\ service.running
    /\ steps < MaxSteps
    /\ steps' = steps + 1
    /\ LET read == read_power_state(service.mode, sensed, failed,
                                    service.last_power_state)
           power_state == read.state
           events == monitor_power_events(power_state, read.last)
           policy == get_power_policy(power_state)
           changed == service.last_policy # <<policy>>
           due == shutdown_due(policy, service.shutdown_warning_sent)
           s1 == [service EXCEPT
                     !.last_power_state = read.last,
                     !.prev = <<power_state>>,
                     !.last_policy = <<policy>>,
                     !.shutdown_warning_sent = @ \/ due,
                     !.events = @ \o power_event_names(events)
                                  \o (IF changed THEN <<"power_policy_change">>
                                      ELSE << >>)
                                  \o (IF due THEN <<"shutdown_initiated">>
                                      ELSE << >>)
                                  \o <<"power_telemetry">>]
       IN  /\ service' = IF due THEN initiate_shutdown(s1) ELSE s1
           /\ ret' = events
           /\ call' = Called("power_tick", power_state, NoActions, 0)
    /\ UNCHANGED <<config, beast, pre>>

\* initiate_shutdown called on the manager by another caller.
InitiateShutdown ==
    /\ service.pc = "power"
    /\ steps < MaxSteps
    /\ steps' = steps + 1
    /\ service' = initiate_shutdown(service)
    /\ call' = Called("initiate_shutdown", call.env, NoActions, 0)
    /\ UNCHANGED <<config, beast, pre, ret>>

\* _signal_handler of PowerService.
PowerSignalHandler ==
    /\ service.pc = "power"
    /\ service.running
    /\ service' = [service EXCEPT !.running = FALSE]
    /\ UNCHANGED <<config, beast, pre, call, ret, steps>>

InitPowerService ==
    /\ config \in {WithDisplay(DefaultConfig, d) : d \in DisplayProfiles}
    /\ beast = DefaultBeast
    /\ pre = beast
    /\ call = Called("init", CalmEnv, NoActions, 0)
    /\ ret = "none"
    /\ steps = 0
    /\ service \in {StartedPowerService(mode) : mode \in {"sensor", "mock"}}

NextPowerService ==
    \/ \E sensed \in Readings, failed \in BOOLEAN : PowerTick(sensed, failed)
    \/ InitiateShutdown
    \/ PowerSignalHandler

SpecPowerService == InitPowerService /\ [][NextPowerService]_vars

(***************************************************************************)
(* Properties                                                              *)
(***************************************************************************)
EvolutionOps == {"update_evolution", "tick"}

\* C1: after every call of update_needs, and after every tick, each of
\* hunger, rest, social and hygiene is within [0,100], whatever the elapsed
\* time, the snapshot and the actions were.
C1_NeedsInRange ==
    call.op \in {"update_needs", "tick"} =>
        \A n \in NeedNames : 0 <= beast.needs[n] /\ beast.needs[n] <= NeedMax

\* C1 witness: update_needs was called with last_updated in the future and
\* with actions far beyond the range, and left hunger at 100 and rest at 0.
C1_Witness ==
    /\ call.op = "update_needs"
    /\ call.now < pre.last_updated
    /\ {"hunger", "rest"} \subseteq DOMAIN call.actions
    /\ pre.needs.hunger + call.actions.hunger > NeedMax
    /\ pre.needs.rest + call.actions.rest < 0
    /\ beast.needs.hunger = NeedMax
    /\ beast.needs.rest = 0

\* C2: after every call of tick_traits, and after every tick, each of the
\* five traits is within [0,1].
C2_TraitsInRange ==
    call.op \in {"tick_traits", "tick"} =>
        \A t \in TraitNames : 0 <= beast.traits[t] /\ beast.traits[t] <= TraitMax

\* C2 witness: tick_traits ran on a beast whose needy trait was 0 with an
\* average need above 70 (needy - 0.005 is below the range), and needy is 0.
C2_Witness ==
    /\ call.op = "tick_traits"
    /\ pre.traits.needy = 0
    /\ SumNeeds(pre.needs) > 4 * 7000
    /\ beast.traits.needy = 0

\* C3 as claimed: after every call of update_evolution (and every tick)
\* evolution_prog is within [0,1], at every stage 1..4.
C3_ProgInRange ==
    call.op \in EvolutionOps =>
        0 <= beast.evolution_prog /\ beast.evolution_prog <= 1000

\* C4: evolution_stage is within [1,4] and no operation lowers it.
C4_StageInRange ==
    /\ beast.evolution_stage \in 1..4
    /\ call.op # "init" => beast.evolution_stage >= pre.evolution_stage

\* C4 witness: update_evolution ran at stage 4 with the progress of the call
\* at or beyond stage_goal, and the stage is still 4.
C4_Witness ==
    /\ call.op = "update_evolution"
    /\ pre.evolution_stage = 4
    /\ beast.evolution_prog >= DictGet(config.evolution, "stage_goal", 1000)
    /\ beast.evolution_stage = 4

\* The score of the current path, 0 when the path has no score.
CurrentScore(b, scores) ==
    IF b.evolution_path \in DOMAIN scores THEN scores[b.evolution_path] ELSE 0

\* C5: update_evolution changes evolution_path only when the highest score
\* of the tick exceeds the score of the current path by more than 0.2, and
\* then the new path is a highest-scoring one; otherwise the path is kept.
C5_Hysteresis ==
    call.op = "update_evolution" =>
        LET scores == exposure_scores(call.env)
            lead == MaxScore(scores) - CurrentScore(pre, scores)
        IN  IF lead > HysteresisMargin
            THEN /\ beast.evolution_path \in DOMAIN scores
                 /\ scores[beast.evolution_path] = MaxScore(scores)
            ELSE beast.evolution_path = pre.evolution_path

\* C5 witness: the current path ember and the path sun both score 1.0 (a
\* lead of 0), and the path is still ember after the call.
C5_Witness ==
    /\ call.op = "update_evolution"
    /\ pre.evolution_path = "ember"
    /\ exposure_scores(call.env).sun = 10
    /\ exposure_scores(call.env).ember = 10
    /\ beast.evolution_path = "ember"

\* C6 as claimed: an evolution_path that is none of the six known paths is
\* still there after update_evolution.
C6_UnknownPathKept ==
    (call.op = "update_evolution" /\ pre.evolution_path \notin KnownPaths)
        => beast.evolution_path = pre.evolution_path

\* C6 amended: update_evolution scores an unknown evolution_path 0 and
\* replaces it by the highest-scoring known path of the tick.
C6_UnknownPathReplaced ==
    (call.op = "update_evolution" /\ pre.evolution_path \notin KnownPaths)
        => /\ beast.evolution_path \in KnownPaths
           /\ exposure_scores(call.env)[beast.evolution_path]
                = MaxScore(exposure_scores(call.env))

\* C6 witness: update_evolution ran on a beast with the unknown path "moon".
C6_Witness ==
    /\ call.op = "update_evolution"
    /\ pre.evolution_path = "moon"
    /\ beast.evolution_path \in KnownPaths

\* C7: a snapshot temperature at or above the hot threshold gives 'hot',
\* whatever the other fields and the beast are.
C7_HotFirst ==
    (call.op = "infer_mood" /\ call.env.temp_c >= config.thresholds.temp_hot)
        => ret = "hot"

\* C7 witness: the temperature is exactly the hot threshold, the battery is
\* low, there are shake events, and the mood returned is hot.
C7_Witness ==
    /\ call.op = "infer_mood"
    /\ call.env.temp_c = config.thresholds.temp_hot
    /\ call.env.vbat < config.power.low_voltage
    /\ call.env.shake_events > 0
    /\ ret = "hot"

\* C8: a snapshot temperature at or below the cold threshold, and below the
\* hot threshold, gives 'cold'.
C8_ColdSecond ==
    (/\ call.op = "infer_mood"
     /\ call.env.temp_c <= config.thresholds.temp_cold
     /\ call.env.temp_c < config.thresholds.temp_hot)
        => ret = "cold"

\* C8 witness: the temperature is exactly the cold threshold, the light is
\* bright, the energy is 100, the battery is low, and the mood is cold.
C8_Witness ==
    /\ call.op = "infer_mood"
    /\ call.env.temp_c = config.thresholds.temp_cold
    /\ call.env.lux > config.thresholds.lux_bright
    /\ call.env.vbat < config.power.low_voltage
    /\ beast.energy = 100
    /\ ret = "cold"

\* C9: with the temperature strictly between the thresholds, a battery
\* voltage below the low-voltage threshold, an energy below 20, a pressure
\* trend beyond twice the stable threshold or a humidity above 90 or below
\* 10 gives 'sick'.
C9_SickThird ==
    (/\ call.op = "infer_mood"
     /\ call.env.temp_c > config.thresholds.temp_cold
     /\ call.env.temp_c < config.thresholds.temp_hot
     /\ \/ call.env.vbat < config.power.low_voltage
        \/ pre.energy < 20
        \/ Abs(call.env.pressure_trend)
             > 2 * DictGet(config.thresholds, "pressure_stable", 20)
        \/ call.env.rh > 90
        \/ call.env.rh < 10)
        => ret = "sick"

\* C9 witness: only the energy is low (battery healthy, pressure stable,
\* humidity moderate), there are shake events, and the mood is sick.
C9_Witness ==
    /\ call.op = "infer_mood"
    /\ pre.energy < 20
    /\ call.env.vbat >= config.power.low_voltage
    /\ call.env.pressure_trend = 0
    /\ call.env.rh = 50
    /\ call.env.shake_events > 0
    /\ ret = "sick"

\* The ten rules as an ordered list of (guard, outcome) pairs.
RuleList(e, b) ==
    << <<HotRule(e, b), "hot">>, <<ColdRule(e, b), "cold">>,
       <<SickRule(e, b), "sick">>, <<SleepyRule(e, b), "sleepy">>,
       <<PlayfulRule(e, b), "playful">>, <<HappyRule(e, b), "happy">>,
       <<CuriousRule(e, b), "curious">>, <<BoredRule(e, b), "bored">>,
       <<AnxiousRule(e, b), "anxious">>, <<TRUE, "calm">> >>

\* C10: infer_mood returns the outcome of the first rule whose guard holds
\* in the order hot, cold, sick, sleepy, playful, happy, curious, bored,
\* anxious, calm, always one of the ten labels; when rules 1-4 do not match,
\* a shake event or motion above the active threshold gives 'playful', and
\* when rules 1-5 do not match, bright light with a comfortable temperature
\* and energy above 60 gives 'happy'.
C10_FirstMatch ==
    call.op = "infer_mood" =>
        LET e == call.env
            rules == RuleList(e, pre)
            none14 == \A i \in 1..4 : ~rules[i][1]
        IN  /\ ret \in Moods
            /\ \E i \in 1..Len(rules) :
                  /\ rules[i][1]
                  /\ \A j \in 1..(i - 1) : ~rules[j][1]
                  /\ ret = rules[i][2]
            /\ (/\ none14
                /\ \/ e.shake_events > 0
                   \/ e.motion_rms_g > config.thresholds.motion_active_g)
                   => ret = "playful"
            /\ (/\ none14
                /\ e.shake_events = 0
                /\ e.motion_rms_g <= config.thresholds.motion_active_g
                /\ e.lux > config.thresholds.lux_bright
                /\ config.thresholds.temp_cold + 5 <= e.temp_c
                /\ e.temp_c <= config.thresholds.temp_hot - 5
                /\ pre.energy > 60)
                   => ret = "happy"

\* C10 witness: rules 1-4 do not match, the playful and the happy guard both
\* hold, and the mood is playful.
C10_Witness ==
    /\ call.op = "infer_mood"
    /\ \A i \in 1..4 : ~RuleList(call.env, pre)[i][1]
    /\ PlayfulRule(call.env, pre)
    /\ HappyRule(call.env, pre)
    /\ ret = "playful"

\* Normal conditions: temperature strictly between the thresholds, healthy
\* battery, light neither dark nor bright, motion at most a quarter of the
\* active threshold, no shake events, stable pressure, moderate humidity,
\* every need at least 30, social at least 40, energy 100.
NormalConditions(e, b) ==
    /\ e.temp_c > config.thresholds.temp_cold
    /\ e.temp_c < config.thresholds.temp_hot
    /\ e.vbat >= config.power.low_voltage
    /\ e.lux >= config.thresholds.lux_dark
    /\ e.lux <= config.thresholds.lux_bright
    /\ 4 * e.motion_rms_g <= config.thresholds.motion_active_g
    /\ e.shake_events = 0
    /\ Abs(e.pressure_trend) <= DictGet(config.thresholds, "pressure_stable", 20)
    /\ e.rh > 40 /\ e.rh < 70
    /\ \A n \in DOMAIN b.needs : b.needs[n] >= 3000
    /\ b.needs.social >= 4000
    /\ b.energy = 100

\* C11 as claimed: under normal conditions, with a default beast and a
\* snapshot carrying the location fingerprint "test", infer_mood returns
\* 'calm'.
C11_CalmFallback ==
    (/\ call.op = "infer_mood"
     /\ pre = DefaultBeast
     /\ NormalConditions(call.env, pre)
     /\ call.env.ssid_fingerprint = "test")
        => ret = "calm"

C13_PipelineCompletes ==
    call.op = "service_tick" =>
        LET e == call.env
            b0 == [pre EXCEPT !.mood = infer_mood(e, pre)]
            b1 == update_needs(b0, e, NoActions, call.now)
            b2 == tick_traits(e, b1, NoActions)
            b3 == update_evolution(e, b2)
        IN  /\ service.stages = PipelineStages
            /\ beast = b3
            /\ Len(service.db) > 0
            /\ service.db[Len(service.db)].beast = beast

\* C14: after a tick of any driver (the scripts' tick, the service's loop
\* iteration) the mood stored in the beast is infer_mood of the snapshot and
\* the beast as it was before the tick.
C14_MoodFromPreTickState ==
    call.op \in {"tick", "service_tick"} =>
        /\ beast.mood = infer_mood(call.env, pre)
        /\ ret = beast.mood

\* C14 witness: a script tick after which the beast would be classified
\* differently than the mood it stores (the updates of the tick changed the
\* outcome of the rules).
C14_Witness ==
    /\ call.op = "tick"
    /\ beast.mood = infer_mood(call.env, pre)
    /\ infer_mood(call.env, beast) # beast.mood

\* C15 as claimed: no state_snapshot row written by StateService holds a
\* beast to which only some stages of a tick were applied.
C15_OnlyCompletedTicksPersisted ==
    \A i \in 1..Len(service.db) : ~service.db[i].dirty

\* C16: with no action for hunger and a non-negative elapsed time,
\* update_needs never increases hunger, and strictly decreases it when the
\* elapsed time is positive and hunger was above 0, for every snapshot.
C16_HungerDrifts ==
    (/\ call.op = "update_needs"
     /\ DOMAIN call.actions = {}
     /\ call.now >= pre.last_updated
     /\ config.needs.hunger_base > 0
     /\ config.needs.drift_rate > 0)
        => /\ beast.needs.hunger <= pre.needs.hunger
           /\ (call.now > pre.last_updated /\ pre.needs.hunger > 0)
                 => beast.needs.hunger < pre.needs.hunger

\* C16 witness: hunger was 75, one hour elapsed, there were no actions, the
\* beast was not active, and hunger is below 75.
C16_Witness ==
    /\ call.op = "update_needs"
    /\ DOMAIN call.actions = {}
    /\ call.now = pre.last_updated + 1
    /\ call.env.motion_rms_g <= config.thresholds.motion_active_g
    /\ pre.needs.hunger = 7500
    /\ beast.needs.hunger < 7500

\* The satisfaction bonus of a need under a snapshot: rest +0.5 when dark and
\* motion below a quarter of the active threshold, hygiene +0.2 when the
\* temperature is comfortable and the humidity strictly between 40 and 70.
SatisfactionBonus(n, e) ==
    IF /\ n = "rest"
       /\ e.lux < config.thresholds.lux_dark
       /\ 4 * e.motion_rms_g < config.thresholds.motion_active_g
    THEN 50
    ELSE IF /\ n = "hygiene"
            /\ config.thresholds.temp_cold + 5 <= e.temp_c
            /\ e.temp_c <= config.thresholds.temp_hot - 5
            /\ 40 < e.rh /\ e.rh < 70
    THEN 20
    ELSE 0

\* The value of a need after drift and caregiver action, before satisfaction
\* and clamping.
AfterDriftAndAction(n, b, e, acts, now) ==
    b.needs[n]
      - (calculate_drift_rate(n, config.needs[n \o "_base"], e, b)
           * (now - b.last_updated) * config.needs.drift_rate) \div 10
      + (IF n \in DOMAIN acts THEN acts[n] ELSE 0)

\* C17: update_needs leaves each need at the clamp to [0,100] of old value
\* minus drift plus the action amount for that need plus the environmental
\* satisfaction, sets last_updated to the time of the call, and an action at
\* least as large as the deficit left after drift leaves the need at
\* exactly 100.
C17_NeedsFormula ==
    call.op = "update_needs" =>
        /\ \A n \in NeedNames :
              LET raw == AfterDriftAndAction(n, pre, call.env, call.actions,
                                             call.now)
              IN  /\ beast.needs[n]
                       = Clamp(0, NeedMax, raw + SatisfactionBonus(n, call.env))
                  /\ raw >= NeedMax => beast.needs[n] = NeedMax
        /\ beast.last_updated = call.now

\* C17 witness: a hunger action larger than the deficit left hunger at
\* exactly 100, hygiene received its +0.2 on top of the drifted value, and
\* last_updated moved to the time of the call.
C17_Witness ==
    /\ call.op = "update_needs"
    /\ "hunger" \in DOMAIN call.actions
    /\ call.actions.hunger > NeedMax - pre.needs.hunger
    /\ beast.needs.hunger = NeedMax
    /\ SatisfactionBonus("hygiene", call.env) = 20
    /\ beast.needs.hygiene
         = AfterDriftAndAction("hygiene", pre, call.env, call.actions, call.now)
             + 20
    /\ beast.needs.hygiene < NeedMax
    /\ beast.last_updated = call.now
    /\ beast.last_updated # pre.last_updated

\* The progress a call of update_evolution has accumulated before the stage
\* test: the progress before the call plus the rate times the highest
\* exposure score of the snapshot (at least 0.1).
AccumulatedProgress(b, e) ==
    b.evolution_prog
      + DictGet(config.evolution, "progression_rate", 1)
          * Max(MaxScore(exposure_scores(e)), ScoreFloor)

\* C18: update_evolution raises evolution_stage by exactly 1 and resets
\* evolution_prog to 0 exactly when the progress accumulated in the call
\* reaches stage_goal while the stage is below 4; in every other call the
\* stage is unchanged and evolution_prog is not lower than before.
C18_StageAdvance ==
    call.op = "update_evolution" =>
        IF /\ AccumulatedProgress(pre, call.env)
                >= DictGet(config.evolution, "stage_goal", 1000)
           /\ pre.evolution_stage < 4
        THEN /\ beast.evolution_stage = pre.evolution_stage + 1
             /\ beast.evolution_prog = 0
        ELSE /\ beast.evolution_stage = pre.evolution_stage
             /\ beast.evolution_prog >= pre.evolution_prog

\* C18 witness: the call brought the progress exactly to stage_goal at stage
\* 3, and the beast is at stage 4 with progress 0.
C18_Witness ==
    /\ call.op = "update_evolution"
    /\ pre.evolution_stage = 3
    /\ pre.evolution_prog > 0
    /\ AccumulatedProgress(pre, call.env)
         = DictGet(config.evolution, "stage_goal", 1000)
    /\ beast.evolution_stage = 4
    /\ beast.evolution_prog = 0

\* C19: from a default beast, over 10 consecutive update_evolution calls on
\* snapshots with temp_c = 25, lux = 8000 and motion = 0.3, evolution_prog
\* never decreases from one tick to the next, and it is greater than 0 (so
\* it has increased strictly at least once) after the tenth.
C19_ScenarioProgress ==
    [][/\ beast'.evolution_prog >= beast.evolution_prog
       /\ steps' = ScenarioTicks => beast'.evolution_prog > 0]_vars

\* C19 witness: the tenth call of the scenario has returned; the beast is
\* still at stage 1 on the sun path, with progress above 0.
C19_Witness ==
    /\ call.op = "update_evolution"
    /\ steps = ScenarioTicks
    /\ beast.evolution_stage = 1
    /\ beast.evolution_path = "sun"
    /\ beast.evolution_prog > pre.evolution_prog
    /\ pre.evolution_prog > 0

\* A snapshot favours a path when no other path scores higher under it.
Favours(e, path) ==
    DictGet(exposure_scores(e), path, 0) = MaxScore(exposure_scores(e))

\* Two consecutive calls of update_evolution of which the first was on a
\* snapshot favouring the path the beast is on, and the second is on a
\* snapshot favouring a different path.
NoisyTick ==
    /\ call.op = "update_evolution"
    /\ call'.op = "update_evolution"
    /\ Favours(call.env, beast.evolution_path)
    /\ ~Favours(call'.env, beast.evolution_path)

\* C20 as claimed: for a beast on a path the surrounding snapshots favour,
\* one tick whose snapshot favours a different path does not change
\* evolution_path.
C20_NoisyTickKeepsPath ==
    [][NoisyTick => beast'.evolution_path = beast.evolution_path]_vars

\* C20 amended: the scores are those of the current tick alone and a lead is
\* 0.5 or 1.0, never within the margin of 0.2, so one tick whose snapshot
\* favours a different path moves the beast to the best path of that tick;
\* the margin holds the path only when the current path ties for the best.
C20_NoisyTickSwitchesPath ==
    [][NoisyTick =>
          /\ beast'.evolution_path # beast.evolution_path
          /\ beast'.evolution_path = max_path(exposure_scores(call'.env))
          /\ Favours(call'.env, beast'.evolution_path)]_vars

\* C20 witness: a beast that one sun-favouring tick had kept on the sun path
\* was moved to another path by a single tick whose snapshot scores sun 0.
C20_Witness ==
    /\ call.op = "update_evolution"
    /\ pre.evolution_path = "sun"
    /\ pre.evolution_stage = 1
    /\ pre.evolution_prog
         = 10 * DictGet(config.evolution, "progression_rate", 1)
    /\ exposure_scores(call.env).sun = 0
    /\ beast.evolution_path # "sun"

\* The set of tasks of a list.
TaskSet(tasks) == {tasks[i] : i \in 1..Len(tasks)}

\* C21: generate_tasks returns at most 3 tasks for every beast and snapshot.
C21_AtMostThreeTasks ==
    call.op = "generate_tasks" => Len(ret) <= 3

\* C21 witness: all four needs were below 40, explorer and playful above
\* 0.7 and the light below 100 lux (seven tasks generated), and three tasks
\* were returned.
C21_Witness ==
    /\ call.op = "generate_tasks"
    /\ \A n \in NeedNames : pre.needs[n] < 4000
    /\ pre.traits.explorer > 140
    /\ pre.traits.playful > 140
    /\ call.env.lux < 100
    /\ Len(ret) = 3

\* C22: whenever hunger is below 40 the list returned by generate_tasks
\* contains the task 'feed', whatever else generates tasks.
C22_FeedKept ==
    (call.op = "generate_tasks" /\ pre.needs.hunger < 4000)
        => "feed" \in TaskSet(ret)

\* C22 witness: hunger was 20 and six more tasks competed for the three
\* places, and 'feed' is in the list returned.
C22_Witness ==
    /\ call.op = "generate_tasks"
    /\ pre.needs.hunger = 2000
    /\ Len(all_tasks(pre, call.env)) = 7
    /\ "feed" \in TaskSet(ret)

\* The conditions and tasks of the generation order.
TaskRules(b, e) ==
    << <<b.needs.hunger < 4000, "feed">>,
       <<b.needs.rest < 4000, "quiet_time">>,
       <<b.needs.social < 4000, "meet_peer">>,
       <<b.needs.hygiene < 4000, "clean">>,
       <<b.traits.explorer > 140, "new_location">>,
       <<b.traits.playful > 140, "play_session">>,
       <<e.lux < 100, "bright_spot">> >>

\* C23: the list returned is a prefix-selection of the generation order: the
\* k-th task returned is the task of the k-th rule (in the order feed,
\* quiet_time, meet_peer, clean, new_location, play_session, bright_spot)
\* whose condition holds, and the list has min(3, number of such rules)
\* tasks; a need of exactly 40 or a trait of exactly 0.7 gives no task.
C23_FirstThreeInOrder ==
    call.op = "generate_tasks" =>
        LET rules == TaskRules(pre, call.env)
            held == {i \in 1..Len(rules) : rules[i][1]}
        IN  /\ Len(ret) = Min(3, Cardinality(held))
            /\ \A k \in 1..Len(ret) :
                  \E i \in held :
                      /\ Cardinality({j \in held : j < i}) = k - 1
                      /\ ret[k] = rules[i][2]

\* C23 witness: hunger and rest were exactly 40 and explorer exactly 0.7
\* (no task for them), and the list returned is meet_peer, clean,
\* play_session, with bright_spot cut off.
C23_Witness ==
    /\ call.op = "generate_tasks"
    /\ pre.needs.hunger = 4000
    /\ pre.needs.rest = 4000
    /\ pre.traits.explorer = 140
    /\ call.env.lux < 100
    /\ ret = <<"meet_peer", "clean", "play_session">>

EngineOps == {"infer_mood", "update_needs", "tick_traits", "update_evolution"}

\* C24 as claimed: with a configuration key the engine reads missing,
\* infer_mood, update_needs, tick_traits and update_evolution still complete
\* (on a built-in default) instead of raising.
C24_MissingKeyDefaults ==
    call.op \in EngineOps => ret # "KeyError"

\* C25 as claimed: a StateService loop iteration that finds no sensor
\* reading of the last hour still performs the state update.
C25_NoDataStillUpdates ==
    call.op = "service_idle" => service.stages # << >>

\* C25 amended: a loop iteration that finds no sensor reading of the last
\* hour runs no stage, leaves the beast as it was and writes no snapshot;
\* the loop stays running, so the update resumes with the next reading.
C25_NoDataSkipsUpdate ==
    [][(call'.op = "service_idle" /\ steps' = steps + 1) =>
          /\ beast' = beast
          /\ ret' = ret
          /\ service'.stages = << >>
          /\ service'.db = service.db
          /\ service'.pc = "loop"
          /\ service'.running]_vars

\* C25 witness: the second loop iteration found no sensor data, after a
\* first one that had updated the beast, and the beast is as that left it.
C25_Witness ==
    /\ call.op = "service_idle"
    /\ steps = 2
    /\ service.dirty
    /\ service.stages = << >>
    /\ service.pc = "loop"
    /\ beast = pre

\* C26: load_latest_beast_state returns None exactly when nothing was ever
\* saved, and otherwise a beast equal in all eight fields to the one passed
\* to the most recent save_beast_state, also when several saves fall into
\* the same clock second.
C26_LoadReturnsLastSaved ==
    call.op = "load_latest_beast_state" =>
        IF service.db = << >>
        THEN ~ret.found
        ELSE /\ ret.found
             /\ ret.beast = service.db[Len(service.db)].json

\* The records of one type among those a step appended to history_events.
Logged(type, before, after) ==
    Cardinality({i \in (Len(before) + 1)..Len(after) : after[i] = type})

\* C27: a StateService tick logs exactly one mood_change record when the
\* mood after the tick differs from the mood before it and none when it does
\* not, and exactly one evolution_change record when the stage or the path
\* differs and none when neither does.
C27_ChangesLogged ==
    [][(call'.op = "service_tick" /\ steps' = steps + 1) =>
          /\ Logged("mood_change", service.events, service'.events)
                = (IF beast'.mood # beast.mood THEN 1 ELSE 0)
          /\ Logged("evolution_change", service.events, service'.events)
                = (IF beast'.evolution_stage # beast.evolution_stage
                      \/ beast'.evolution_path # beast.evolution_path
                   THEN 1 ELSE 0)]_vars

\* The change of one trait that C28 states for a tick_traits call, in units
\* of 0.005, before clamping.
TraitDelta(trait, e, b, acts) ==
    CASE trait = "playful" ->
            IF \/ e.motion_rms_g > thresholds.motion_active_g
               \/ e.shake_events > 0
               \/ "play" \in DOMAIN acts
            THEN 2 ELSE 0
      [] trait = "needy" ->
            IF SumNeeds(b.needs) < 16000 THEN 2
            ELSE IF SumNeeds(b.needs) > 28000 THEN 0 - 1
            ELSE 0
      [] trait = "rebellious" ->
            IF \E n \in NeedNames : b.needs[n] < 2000 THEN 2 ELSE 0
      [] trait = "social" ->
            IF "social_interaction" \in DOMAIN acts THEN 2 ELSE 0
      [] trait = "explorer" ->
            IF detect_novelty(e, b) THEN 2 ELSE 0

\* C28: tick_traits moves each trait by the fixed rate 0.01 and then clamps
\* it to [0, 1]: playful +0.01 on motion above the active threshold, a shake
\* or a play action; needy +0.01 when the average need is below 40, -0.005
\* when it is above 70; rebellious +0.01 when some need is below 20; social
\* +0.01 only on a social_interaction action; explorer +0.01 on novelty; a
\* trait whose condition fails is unchanged, and nothing but the traits
\* changes.
C28_TraitRates ==
    (call.op = "tick_traits" /\ ret # "KeyError") =>
        /\ \A t \in TraitNames :
              beast.traits[t] =
                  Clamp(0, TraitMax,
                        pre.traits[t]
                          + TraitDelta(t, call.env, pre, call.actions))
        /\ beast = [pre EXCEPT !.traits = beast.traits]

\* C28 witness: a tick_traits call without actions on a beast whose average
\* need is above 70 lowered needy by 0.005 and left social as it was.
C28_Witness ==
    /\ call.op = "tick_traits"
    /\ call.actions = NoActions
    /\ SumNeeds(pre.needs) > 28000
    /\ pre.traits.needy > 1
    /\ beast.traits.needy = pre.traits.needy - 1
    /\ beast.traits.social = pre.traits.social

\* The four rules of C29, in their order of priority, as conditions on a
\* power state.
ShutdownCase(ps) ==
    \/ ps.battery_percent <= config.display.battery_shutdown_pct
    \/ ps.critical_battery

StaticCase(ps) ==
    ps.battery_percent <= config.display.battery_static_pct

DimCase(ps) ==
    \/ ps.battery_percent <= config.display.battery_dim_pct
    \/ ps.low_battery

\* C29: for a power state that is low on battery (low_battery set, or
\* battery_percent at or below the dim threshold) get_power_policy returns
\* dim = true and a frame rate below the active frame rate; the policy is
\* the shutdown one when the shutdown rule applies, else the static one
\* when the static rule applies, else the dim one when the dim rule
\* applies, else the normal one; and a policy with shutdown = true has
\* static_mode = true and dim = true.
C29_LowBatteryPolicy ==
    call.op = "get_power_policy" =>
        LET ps == call.env
            kind == IF ShutdownCase(ps) THEN "shutdown"
                    ELSE IF StaticCase(ps) THEN "static"
                    ELSE IF DimCase(ps) THEN "dim"
                    ELSE "normal"
        IN  /\ DimCase(ps) =>
                  ret.dim /\ ret.fps < config.display.fps_active
            /\ ret.shutdown <=> kind = "shutdown"
            /\ ret.static_mode <=> kind \in {"shutdown", "static"}
            /\ ret.dim <=> kind # "normal"
            /\ kind = "dim" => ret.fps = config.display.fps_idle
            /\ kind = "normal" => ret.fps = config.display.fps_active
            /\ ret.shutdown => ret.static_mode /\ ret.dim

\* C29 witness: a battery at 15 per cent with the low flag set and the
\* critical flag clear, above the static threshold, got the dim policy at
\* the idle frame rate.
C29_Witness ==
    /\ call.op = "get_power_policy"
    /\ call.env = PowerState(15, TRUE, FALSE)
    /\ config.display.battery_static_pct < 15
    /\ ret.dim
    /\ ~ret.static_mode
    /\ ret.fps = config.display.fps_idle
    /\ ret.fps < config.display.fps_active

C31_EnergyNeverChanges ==
    /\ beast.energy = 100
    /\ pre.energy = 100
    /\ call.op \in {"infer_mood", "tick"} => ret # "sleepy"
    /\ call.op \in {"infer_mood", "tick"} =>
          (ret = "sick" =>
              \/ call.env.vbat < config.power.low_voltage
              \/ is_environmental_extreme(call.env))

\* C31 witness: after an earlier operation, infer_mood on a dark, quiet
\* snapshot (the sleepy rule's environment) returned another mood than
\* sleepy.
C31_Witness ==
    /\ call.op = "infer_mood"
    /\ steps = 2
    /\ call.env.lux < thresholds.lux_dark
    /\ 4 * call.env.motion_rms_g < thresholds.motion_active_g
    /\ call.env.temp_c > thresholds.temp_cold
    /\ ret \notin {"sleepy", "sick"}

\* C32: every update_evolution call scores 0.5 for social or for lone, so
\* the highest score of the call is at least 0.5 and the 0.1 floor is never
\* used; the progress accumulated in the call is therefore at least 0.5 x
\* progression_rate above the progress before it, the stage never falls, and
\* under calls that go on for ever the beast reaches stage 4 and stays there.
C32_ReachesStageFour ==
    /\ [][call'.op = "update_evolution" =>
            LET scores == exposure_scores(call'.env)
                rate == DictGet(config.evolution, "progression_rate", 1)
                gained == IF beast'.evolution_stage = beast.evolution_stage
                          THEN beast'.evolution_prog - beast.evolution_prog
                          ELSE DictGet(config.evolution, "stage_goal", 1000)
                                 - beast.evolution_prog
            IN  /\ scores.social + scores.lone = 5
                /\ MaxScore(scores) >= 5
                /\ gained >= 5 * rate \/ beast'.evolution_stage
                                           = beast.evolution_stage + 1
                /\ beast'.evolution_stage = beast.evolution_stage
                     => gained = MaxScore(scores) * rate
                /\ beast'.evolution_stage >= beast.evolution_stage
                /\ beast.evolution_stage = 4 => beast'.evolution_stage = 4]_vars
    /\ <>[](beast.evolution_stage = 4)

\* C32 witness: a call whose highest score was the 0.5 of lone or social
\* took a beast from stage 3 to stage 4.
C32_Witness ==
    /\ call.op = "update_evolution"
    /\ MaxScore(exposure_scores(call.env)) = 5
    /\ pre.evolution_stage = 3
    /\ beast.evolution_stage = 4

\* C33: no tick_traits call, whatever the snapshot and the actions, lowers
\* playful, rebellious, social or explorer; needy is the only trait that a
\* call can lower.
C33_OnlyNeedyDecreases ==
    [][call'.op \in {"tick_traits", "tick"} =>
          \A t \in TraitNames \ {"needy"} :
              beast'.traits[t] >= beast.traits[t]]_vars

\* C33 witness: a tick_traits call with a play action lowered needy and
\* raised playful.
C33_Witness ==
    /\ call.op = "tick_traits"
    /\ "play" \in DOMAIN call.actions
    /\ beast.traits.needy < pre.traits.needy
    /\ beast.traits.playful > pre.traits.playful
    /\ \A t \in TraitNames \ {"needy"} : beast.traits[t] >= pre.traits[t]

\* The rank of a path in the fixed order of C34.
PathRank ==
    [sun |-> 1, shadow |-> 2, ember |-> 3, frost |-> 4, social |-> 5,
     lone |-> 6]

\* The best path of C34: the earliest, in that order, of the paths that
\* share the highest score.
EarliestBest(scores) ==
    CHOOSE p \in DOMAIN PathRank :
        /\ scores[p] = MaxScore(scores)
        /\ \A q \in DOMAIN PathRank :
              scores[q] = MaxScore(scores) => PathRank[p] <= PathRank[q]

\* C34: when several paths share the highest score of a tick,
\* update_evolution takes the earliest of them in the order sun, shadow,
\* ember, frost, social, lone as the best path, so the path after the tick
\* is a function of the snapshot and the current path; and the tick moves
\* the beast to social or lone only when no path scores 1.0.
C34_EarliestBestPath ==
    call.op = "update_evolution" =>
        LET scores == exposure_scores(call.env)
        IN  /\ beast.evolution_path =
                  IF MaxScore(scores)
                       > CurrentScore(pre, scores) + HysteresisMargin
                  THEN EarliestBest(scores)
                  ELSE pre.evolution_path
            /\ (beast.evolution_path \in {"social", "lone"}
                  /\ beast.evolution_path # pre.evolution_path)
                 => \A p \in DOMAIN scores : scores[p] < 10

\* C34 witness: sun and ember both scored 1.0, the beast was on neither,
\* and it is on sun after the call.
C34_Witness ==
    /\ call.op = "update_evolution"
    /\ exposure_scores(call.env).sun = 10
    /\ exposure_scores(call.env).ember = 10
    /\ pre.evolution_path \notin {"sun", "ember"}
    /\ beast.evolution_path = "sun"

\* C35: each engine operation changes only its own part of the beast:
\* infer_mood and generate_tasks nothing, update_needs the needs and
\* last_updated, tick_traits the traits, update_evolution the path, the
\* stage and the progress; and the stage and the progress after
\* update_evolution are what the progress before the call and the scores of
\* the snapshot give, whether or not the path switched.
C35_FrameEffects ==
    /\ call.op \in {"infer_mood", "generate_tasks"} => beast = pre
    /\ call.op = "update_needs" =>
          beast = [pre EXCEPT !.needs = beast.needs,
                              !.last_updated = beast.last_updated]
    /\ call.op = "tick_traits" => beast = [pre EXCEPT !.traits = beast.traits]
    /\ call.op = "update_evolution" =>
          LET acc == AccumulatedProgress(pre, call.env)
              advance == /\ acc >= DictGet(config.evolution, "stage_goal", 1000)
                         /\ pre.evolution_stage < 4
          IN  /\ beast = [pre EXCEPT
                     !.evolution_path = beast.evolution_path,
                     !.evolution_stage = beast.evolution_stage,
                     !.evolution_prog = beast.evolution_prog]
              /\ beast.evolution_stage =
                    IF advance THEN pre.evolution_stage + 1
                    ELSE pre.evolution_stage
              /\ beast.evolution_prog = IF advance THEN 0 ELSE acc

\* C35 witness: an update_evolution call that switched the path of a beast
\* with progress from an earlier call, and added to that progress.
C35_Witness ==
    /\ call.op = "update_evolution"
    /\ beast.evolution_path # pre.evolution_path
    /\ pre.evolution_prog > 0
    /\ beast.evolution_prog > pre.evolution_prog
    /\ beast.needs = pre.needs
    /\ beast.traits = pre.traits
    /\ beast.mood = pre.mood

\* The events that C36 expects for a reading that follows another one.
ExpectedPowerEvents(old, new) ==
    (IF Abs(new.battery_percent - old.battery_percent) > 5
     THEN {"battery_level_change"} ELSE {})
    \cup (IF new.charging # old.charging
          THEN {"charging_status_change"} ELSE {})
    \cup (IF ~old.low_battery /\ new.low_battery
          THEN {"low_battery_warning"} ELSE {})
    \cup (IF ~old.critical_battery /\ new.critical_battery
          THEN {"critical_battery_warning"} ELSE {})

\* C36: when the reading of a PowerService iteration differs from the
\* reading of the iteration before (low_battery or critical_battery newly
\* set, charging changed, battery_percent moved by more than 5 points),
\* monitor_power_events returns the corresponding events and the service
\* logs each of them.
C36_PowerEventsReported ==
    [][(call'.op = "power_tick" /\ steps' = steps + 1
          /\ service.prev # << >>) =>
          \A type \in ExpectedPowerEvents(service.prev[1], call'.env) :
              /\ \E i \in 1..Len(ret') : ret'[i] = type
              /\ Logged("power_" \o type, service.events, service'.events)
                    >= 1]_vars

\* C37: PowerService starts the shutdown sequence at most once per run: at
\* no time has more than one shutdown been started or more than one
\* shutdown_initiated event been logged, however many iterations report a
\* critical battery; and initiate_shutdown on a manager that has initiated
\* a shutdown before changes nothing.
C37_ShutdownOnce ==
    [][/\ service'.shutdowns <= 1
       /\ Logged("shutdown_initiated", << >>, service'.events) <= 1
       /\ (service.shutdown_warning_sent /\ call'.op = "power_tick"
             /\ steps' = steps + 1) =>
             /\ service'.shutdowns = service.shutdowns
             /\ Logged("shutdown_initiated", service.events,
                       service'.events) = 0
       /\ (service.shutdown_initiated /\ call'.op = "initiate_shutdown"
             /\ steps' = steps + 1) => service' = service]_vars

\* C37 witness: two iterations in a row had a shutdown policy; the first
\* logged the policy change and shutdown_initiated, the second only its
\* telemetry, and one shutdown was started.
C37_Witness ==
    /\ call.op = "power_tick"
    /\ steps = 2
    /\ service.events = <<"power_policy_change", "shutdown_initiated",
                          "power_telemetry", "power_telemetry">>
    /\ service.last_policy[1].shutdown
    /\ service.shutdowns = 1

\* C38: a signal only clears the running flag (the beast and the snapshots
\* are as the iteration left them); once the flag is cleared the service
\* starts no further tick: its only step is to leave the loop and save the
\* beast one final time, after which it does nothing more; and that step
\* is eventually taken.  An iteration is one step, and it does not read the
\* flag, so a signal that arrives during an iteration or during the sleep
\* after it is a signal after that step.
C38_SignalStopsService ==
    /\ [][(service.pc = "loop" /\ service.running /\ ~service'.running) =>
             /\ beast' = beast
             /\ service'.db = service.db
             /\ service'.pc = "loop"]_vars
    /\ [][(service.pc = "loop" /\ ~service.running) =>
             /\ service'.pc = "stopped"
             /\ beast' = beast
             /\ steps' = steps
             /\ Len(service'.db) = Len(service.db) + 1
             /\ service'.db[Len(service'.db)].beast = beast]_vars
    /\ [][service.pc # "stopped"]_vars
    /\ (service.pc = "loop" /\ ~service.running) ~> (service.pc = "stopped")

\* C38 witness: the service was signalled after two iterations, left the
\* loop, and the last snapshot written is the beast.
C38_Witness ==
    /\ service.pc = "stopped"
    /\ ~service.running
    /\ steps = 2
    /\ call.op = "service_stop"
    /\ service.db # << >>
    /\ service.db[Len(service.db)].beast = beast

\* C39: StateService calls generate_tasks once in each hour of running,
\* whatever the second at which the loop started and however long the
\* iterations take: after k full hours it has made at least k calls, and at
\* no time more than one call per hour begun.
C39_TasksEveryHour ==
    service.pc = "loop" =>
        LET hours == (service.clock - service.started) \div 3600
        IN  /\ service.task_calls >= hours
            /\ service.task_calls <= hours + 1

====
